---- MODULE Spec2Model ----
(***************************************************************************)
(* Scoring and allocation engine of the internship matchmaker             *)
(* (SIH_Prototype/backend/logic.py, called from backend/main.py).          *)
(*                                                                         *)
(* Text is modelled by TLA+ strings, read character by character with     *)
(* Len and SubSeq.  A Python float is modelled by an exact fraction        *)
(* [n |-> numerator, d |-> denominator] in lowest terms; round(x, 2) is    *)
(* modelled on the exact value, rounding a half to the even neighbour.     *)
(***************************************************************************)
EXTENDS Integers, Sequences, FiniteSets, TLC

(***************************************************************************)
(* Fractions                                                               *)
(***************************************************************************)
RECURSIVE GCD(_, _)
GCD(a, b) == IF b = 0 THEN a ELSE GCD(b, a % b)

Frac(n, d) ==
  LET g == GCD(n, d) IN
  IF n = 0 THEN [n |-> 0, d |-> 1] ELSE [n |-> n \div g, d |-> d \div g]

R(i) == [n |-> i, d |-> 1]

RAdd(a, b) == Frac(a.n * b.d + b.n * a.d, a.d * b.d)

RMul(a, b) == Frac(a.n * b.n, a.d * b.d)

RLt(a, b) == a.n * b.d < b.n * a.d

RLe(a, b) == a.n * b.d <= b.n * a.d

RECURSIVE RSum(_)
RSum(s) == IF s = <<>> THEN R(0) ELSE RAdd(Head(s), RSum(Tail(s)))

\* np.mean of a non-empty list
mean(s) == RMul(RSum(s), Frac(1, Len(s)))

\* round(x, 2) of a non-negative value: the nearest multiple of 1/100
round2(x) ==
  LET q == (x.n * 100) \div x.d
      r == (x.n * 100) % x.d
      up == \/ 2 * r > x.d
            \/ 2 * r = x.d /\ q % 2 = 1
  IN Frac(IF up THEN q + 1 ELSE q, 100)

(***************************************************************************)
(* Text                                                                    *)
(***************************************************************************)
Char(s, i) == SubSeq(s, i, i)

\* Python's  n in h  on two strings
Contains(h, n) ==
  \E i \in 1..(Len(h) - Len(n) + 1) : SubSeq(h, i, i + Len(n) - 1) = n

LowerToUpper ==
  [c \in {"a", "b", "c", "d", "e", "f", "g", "h", "i", "j", "k", "l", "m",
          "n", "o", "p", "q", "r", "s", "t", "u", "v", "w", "x", "y", "z"} |->
     CASE c = "a" -> "A" [] c = "b" -> "B" [] c = "c" -> "C" [] c = "d" -> "D"
       [] c = "e" -> "E" [] c = "f" -> "F" [] c = "g" -> "G" [] c = "h" -> "H"
       [] c = "i" -> "I" [] c = "j" -> "J" [] c = "k" -> "K" [] c = "l" -> "L"
       [] c = "m" -> "M" [] c = "n" -> "N" [] c = "o" -> "O" [] c = "p" -> "P"
       [] c = "q" -> "Q" [] c = "r" -> "R" [] c = "s" -> "S" [] c = "t" -> "T"
       [] c = "u" -> "U" [] c = "v" -> "V" [] c = "w" -> "W" [] c = "x" -> "X"
       [] c = "y" -> "Y" [] c = "z" -> "Z"]

RECURSIVE upper(_)
upper(s) ==
  IF Len(s) = 0 THEN ""
  ELSE LET c == Char(s, 1)
       IN (IF c \in DOMAIN LowerToUpper THEN LowerToUpper[c] ELSE c)
            \o upper(SubSeq(s, 2, Len(s)))

Whitespace == {" ", "\t"}

RECURSIVE lstrip(_)
lstrip(s) ==
  IF Len(s) > 0 /\ Char(s, 1) \in Whitespace
  THEN lstrip(SubSeq(s, 2, Len(s))) ELSE s

RECURSIVE rstrip(_)
rstrip(s) ==
  IF Len(s) > 0 /\ Char(s, Len(s)) \in Whitespace
  THEN rstrip(SubSeq(s, 1, Len(s) - 1)) ELSE s

strip(s) == rstrip(lstrip(s))

\* str.replace for a one-character pattern
RECURSIVE replace(_, _, _)
replace(s, old, new) ==
  IF Len(s) = 0 THEN ""
  ELSE (IF Char(s, 1) = old THEN new ELSE Char(s, 1))
         \o replace(SubSeq(s, 2, Len(s)), old, new)

\* str.split(sep) for a one-character separator: the pieces, empty ones kept
RECURSIVE split(_, _)
split(s, sep) ==
  IF \A i \in 1..Len(s) : Char(s, i) # sep THEN <<s>>
  ELSE LET k == CHOOSE i \in 1..Len(s) :
                  Char(s, i) = sep /\ \A j \in 1..(i - 1) : Char(s, j) # sep
       IN <<SubSeq(s, 1, k - 1)>> \o split(SubSeq(s, k + 1, Len(s)), sep)

\* set(str.split()): the maximal runs of non-whitespace characters
tokens(s) ==
  {SubSeq(s, i, j) : <<i, j>> \in
     {p \in (1..Len(s)) \X (1..Len(s)) :
        /\ p[1] <= p[2]
        /\ \A k \in p[1]..p[2] : Char(s, k) \notin Whitespace
        /\ (p[1] = 1 \/ Char(s, p[1] - 1) \in Whitespace)
        /\ (p[2] = Len(s) \/ Char(s, p[2] + 1) \in Whitespace)}}

Range(s) == {s[i] : i \in DOMAIN s}

(***************************************************************************)
(* 1. Taxonomy and master data                                             *)
(***************************************************************************)
CORE_TREE ==
  [ engineering |->
      [ computer_eng |->
          <<"PYTHON", "JAVA", "C++", "C#", "JAVASCRIPT", "SQL", "GOLANG", "RUST",
            "AIML", "WEB DEVELOPMENT", "APP DEVELOPMENT", "CYBERSECURITY",
            "DATA ENGINEERING", "DEVOPS", "CLOUD COMPUTING", "BLOCKCHAIN",
            "COMPUTER VISION", "NLP">>,
        electrical_eng |->
          <<"POWER SYSTEMS", "EMBEDDED SYSTEMS", "IOT", "VLSI", "PCB DESIGN",
            "CONTROL SYSTEMS", "MATLAB", "SIMULINK">>,
        mechanical_eng |->
          <<"AUTOCAD", "SOLIDWORKS", "CATIA", "ANSYS", "THERMAL ENGINEERING",
            "AUTOMOTIVE DESIGN", "ROBOTICS", "3D PRINTING">>,
        civil_eng |->
          <<"STRUCTURAL ANALYSIS", "STAAD PRO", "ETABS", "SURVEYING",
            "GEOTECHNICAL ENGINEERING">> ],
    finance |->
      [ accounting |->
          <<"TALLY", "GST", "INCOME TAX", "FINANCIAL ANALYSIS", "AUDITING",
            "QUICKBOOKS">>,
        investment_banking |->
          <<"FINANCIAL MODELING", "VALUATION", "MERGERS & ACQUISITIONS",
            "EQUITY RESEARCH">>,
        fintech |->
          <<"PAYMENT GATEWAYS", "ALGORITHMIC TRADING", "REGTECH">> ],
    law |->
      [ corporate_law |->
          <<"CONTRACT DRAFTING", "LEGAL RESEARCH", "COMPLIANCE", "DUE DILIGENCE">>,
        litigation |->
          <<"CASE PREPARATION", "LEGAL BRIEFING", "MOOT COURT">>,
        ipr |->
          <<"PATENT LAW", "TRADEMARK LAW", "COPYRIGHT LAW">> ],
    medical_pharma |->
      [ pharma |->
          <<"QUALITY ASSURANCE (QA)", "QUALITY CONTROL (QC)", "REGULATORY AFFAIRS",
            "PHARMACOVIGILANCE">>,
        clinical |->
          <<"CLINICAL RESEARCH", "PATIENT COUNSELING", "MEDICAL WRITING">> ],
    design_creative |->
      [ ui_ux |->
          <<"FIGMA", "ADOBE XD", "SKETCH", "USER RESEARCH", "WIREFRAMING">>,
        graphic_design |->
          <<"ADOBE PHOTOSHOP", "ADOBE ILLUSTRATOR", "CANVA", "VIDEO EDITING">> ],
    business_management |->
      [ marketing |->
          <<"SEO", "SEM", "SOCIAL MEDIA MARKETING", "CONTENT WRITING",
            "EMAIL MARKETING">>,
        sales |->
          <<"LEAD GENERATION", "CRM SOFTWARE", "NEGOTIAITON">>,
        operations |->
          <<"SUPPLY CHAIN", "LOGISTICS", "PROJECT MANAGEMENT">> ] ]

NON_CORE ==
  <<"COMMUNICATION", "ENGLISH PROFICIENCY", "MS WORD", "MS EXCEL", "MS POWERPOINT", "DATA ENTRY", "BASIC MATHS", "TEAMWORK", "PROBLEM SOLVING">>

PRESET_INTERNSHIPS ==
  <<
    [key |-> "job1", post |-> "AI/ML Intern", company |-> "IntelliTech", offers |-> 3,
     degree |-> <<"B.TECH">>, branch |-> <<"CS", "IT">>,
     skills |-> <<"AIML", "PYTHON", "DATA ENGINEERING", "MS EXCEL">>,
     city |-> "Bengaluru", state |-> "Karnataka",
     priority |-> <<"skills", "education", "interest", "location">>],
    [key |-> "job2", post |-> "Web Development Intern", company |-> "WebWeavers", offers |-> 5,
     degree |-> <<"B.TECH", "BCA", "B.SC">>, branch |-> <<"CS", "IT">>,
     skills |-> <<"JAVASCRIPT", "WEB DEVELOPMENT", "DEVOPS", "COMMUNICATION">>,
     city |-> "Pune", state |-> "Maharashtra",
     priority |-> <<"skills", "education", "location", "interest">>],
    [key |-> "job3", post |-> "Financial Analyst Intern", company |-> "Capital Gains Inc.", offers |-> 4,
     degree |-> <<"B.COM", "BBA">>, branch |-> <<"ACCOUNTS", "FINANCE">>,
     skills |-> <<"FINANCIAL ANALYSIS", "FINANCIAL MODELING", "MS EXCEL">>,
     city |-> "Mumbai", state |-> "Maharashtra",
     priority |-> <<"skills", "education", "interest", "location">>],
    [key |-> "job4", post |-> "Data Science Intern", company |-> "DataCorp Analytics", offers |-> 3,
     degree |-> <<"B.TECH", "B.SC">>, branch |-> <<"CS", "IT">>,
     skills |-> <<"PYTHON", "SQL", "AIML", "DATA ENGINEERING">>,
     city |-> "Chennai", state |-> "Tamil Nadu",
     priority |-> <<"skills", "education", "interest", "location">>],
    [key |-> "job5", post |-> "Cybersecurity Intern", company |-> "SecureNet Solutions", offers |-> 2,
     degree |-> <<"B.TECH">>, branch |-> <<"CS", "IT", "ECE">>,
     skills |-> <<"CYBERSECURITY", "PYTHON", "COMMUNICATION">>,
     city |-> "Hyderabad", state |-> "Telangana",
     priority |-> <<"skills", "education", "location", "interest">>],
    [key |-> "job6", post |-> "Digital Marketing Intern", company |-> "Brand Builders", offers |-> 6,
     degree |-> <<"B.COM", "BBA", "B.A.">>, branch |-> <<"MARKETING", "FINANCE">>,
     skills |-> <<"SEO", "SOCIAL MEDIA MARKETING", "CONTENT WRITING", "MS EXCEL">>,
     city |-> "Delhi", state |-> "Delhi",
     priority |-> <<"skills", "interest", "education", "location">>]
  >>

ENGINEERING_BRANCHES ==
  <<"CS", "IT", "ECE", "EEE", "MECHANICAL", "CIVIL", "CHEMICAL", "BIOTECHNOLOGY">>

(***************************************************************************)
(* 2. Utility functions                                                    *)
(***************************************************************************)
normalize_skill(s) == IF strip(s) # "" THEN upper(strip(s)) ELSE ""

CoreSkills ==
  UNION {UNION {{normalize_skill(sk) : sk \in Range(CORE_TREE[row1][row2])} :
                  row2 \in DOMAIN CORE_TREE[row1]} : row1 \in DOMAIN CORE_TREE}

\* core_lookup[skill] = (f"{row1}/{row2}", row2)
CORE_LOOKUP ==
  [skill \in CoreSkills |->
     LET row1 == CHOOSE r1 \in DOMAIN CORE_TREE : \E r2 \in DOMAIN CORE_TREE[r1] :
                   skill \in {normalize_skill(sk) : sk \in Range(CORE_TREE[r1][r2])}
         row2 == CHOOSE r2 \in DOMAIN CORE_TREE[row1] :
                   skill \in {normalize_skill(sk) : sk \in Range(CORE_TREE[row1][r2])}
     IN <<row1 \o "/" \o row2, row2>>]

NON_CORE_SET == {normalize_skill(s) : s \in Range(NON_CORE)}

skill_is_core(skill) == normalize_skill(skill) \in DOMAIN CORE_LOOKUP

\* parse_skills of a text cell: split on "," and ";", blank pieces dropped
parse_skills(s) ==
  LET parts == split(replace(s, ";", ","), ",")
      F[i \in 0..Len(parts)] ==
        IF i = 0 THEN <<>>
        ELSE IF strip(parts[i]) # "" THEN Append(F[i - 1], normalize_skill(parts[i]))
             ELSE F[i - 1]
  IN F[Len(parts)]

\* The module-level loop that normalises the presets' skills, degrees and branches
PresetJobs ==
  [i \in DOMAIN PRESET_INTERNSHIPS |->
     LET j == PRESET_INTERNSHIPS[i]
     IN [j EXCEPT !.skills = [k \in DOMAIN j.skills |-> normalize_skill(j.skills[k])],
                  !.degree = [k \in DOMAIN j.degree |-> normalize_skill(j.degree[k])],
                  !.branch = [k \in DOMAIN j.branch |-> normalize_skill(j.branch[k])]]]

(***************************************************************************)
(* 3. Scoring algorithms                                                   *)
(***************************************************************************)
education_score(candidate_edu, required_degrees, required_branches) ==
  LET c_edu == normalize_skill(candidate_edu)
      req_deg == [i \in DOMAIN required_degrees |-> normalize_skill(required_degrees[i])]
      req_branch == [i \in DOMAIN required_branches |-> normalize_skill(required_branches[i])]
      any_deg == \E i \in DOMAIN req_deg : Contains(c_edu, req_deg[i])
      any_branch == \E i \in DOMAIN req_branch : Contains(c_edu, req_branch[i])
  IN IF c_edu = "" \/ required_degrees = <<>> THEN R(0)
     ELSE IF any_deg /\ (req_branch = <<>> \/ any_branch) THEN R(100)
     ELSE IF any_deg THEN R(80)
     ELSE IF /\ "B.TECH" \in Range(req_deg)
             /\ (Contains(c_edu, "BCA") \/ Contains(c_edu, "B.SC"))
             /\ (Contains(c_edu, "CS") \/ Contains(c_edu, "IT")) THEN R(60)
     ELSE IF /\ Contains(c_edu, "DIPLOMA")
             /\ \E b \in Range(ENGINEERING_BRANCHES) : Contains(c_edu, b) THEN R(40)
     ELSE IF Contains(c_edu, "12TH") \/ Contains(c_edu, "XII") THEN R(20)
     ELSE R(0)

location_score_state_only(c_city, c_state, i_city, i_state) ==
  IF c_state # "" /\ i_state # "" /\ normalize_skill(c_state) = normalize_skill(i_state)
  THEN R(66)
  ELSE R(33)

location_score(c_city, c_state, i_city, i_state) ==
  IF c_city # "" /\ i_city # "" /\ normalize_skill(c_city) = normalize_skill(i_city)
  THEN R(100)
  ELSE IF c_state # "" /\ i_state # ""
          /\ normalize_skill(c_state) = normalize_skill(i_state)
  THEN R(66)
  ELSE R(33)

raise_best_last_wins(b, score, cs) == [b EXCEPT !.score = score, !.skill = cs]

\* if best_score < score: best_score = score; best_match_skill = cs
raise_best(b, score, cs) ==
  IF b.score < score THEN [b EXCEPT !.score = score, !.skill = cs] ELSE b

\* if req in cs or cs in req: the 80 tier
substring_tier(req, b, cs) ==
  IF Contains(cs, req) \/ Contains(req, cs) THEN raise_best(b, 80, cs) ELSE b

\* cs in CORE_LOOKUP: the 50 tier (same bucket), elif the 10 tier (same row2);
\* req_entry and cs_entry are the CORE_LOOKUP pairs (row2, row3_bucket)
taxonomy_tier(req_entry, cs_entry, b, cs) ==
  IF cs_entry[2] = req_entry[2] THEN raise_best(b, 50, cs)
  ELSE IF cs_entry[1] = req_entry[1] THEN raise_best(b, 10, cs)
  ELSE b

best_match_step_exact_is_nothing(req, b, cs) ==
  IF b.returned THEN b
  ELSE IF cs = req THEN [score |-> 0, skill |-> "", returned |-> TRUE]
  ELSE IF cs \in DOMAIN CORE_LOOKUP
  THEN taxonomy_tier(CORE_LOOKUP[req], CORE_LOOKUP[cs], substring_tier(req, b, cs), cs)
  ELSE substring_tier(req, b, cs)

\* One turn of the loop over candidate_skills: b is (best_score, best_match_skill,
\* returned), cs the skill looked at.
best_match_step(req, b, cs) ==
  IF b.returned THEN b
  ELSE IF cs = req THEN [score |-> 100, skill |-> cs, returned |-> TRUE]
  ELSE IF cs \in DOMAIN CORE_LOOKUP
  THEN taxonomy_tier(CORE_LOOKUP[req], CORE_LOOKUP[cs], substring_tier(req, b, cs), cs)
  ELSE substring_tier(req, b, cs)

\* The loop over candidate_skills for a core req: what it leaves in b
best_match_loop(req, candidate_skills) ==
  LET F[i \in 0..Len(candidate_skills)] ==
        IF i = 0 THEN [score |-> 0, skill |-> "", returned |-> FALSE]
        ELSE best_match_step(req, F[i - 1], candidate_skills[i])
  IN F[Len(candidate_skills)]

best_match_pair(b) == <<b.score, b.skill>>

\* best_match_for_required_skill after req = normalize_skill(required_skill)
best_match_normalized(req, candidate_skills) ==
  IF req \in NON_CORE_SET
  THEN (IF req \in Range(candidate_skills) THEN <<100, req>> ELSE <<0, "">>)
  ELSE IF req \in DOMAIN CORE_LOOKUP
  THEN best_match_pair(best_match_loop(req, candidate_skills))
  ELSE <<0, "">>

\* (score, matched skill); the score is one of 0, 10, 50, 80, 100
best_match_for_required_skill(required_skill, candidate_skills) ==
  best_match_normalized(normalize_skill(required_skill), candidate_skills)

core_weight == Frac(8, 10)

normalize_all(skills) == [i \in DOMAIN skills |-> normalize_skill(skills[i])]

not_core(s) == ~skill_is_core(s)

\* [best_match_for_required_skill(rs, cand_norm)[0] for rs in reqs]
match_scores(reqs, cand_norm) ==
  [i \in DOMAIN reqs |-> R(best_match_for_required_skill(reqs[i], cand_norm)[1])]

combine_always_weighted(core_scores, non_core_scores) ==
  RAdd(RMul(core_weight, IF core_scores # <<>> THEN mean(core_scores) ELSE R(100)),
       RMul(RAdd(R(1), RMul(R(-1), core_weight)),
            IF non_core_scores # <<>> THEN mean(non_core_scores) ELSE R(100)))

\* The averages and the three returns; a partition of the required skills is
\* empty exactly when its list of scores is
combine_skill_scores(core_scores, non_core_scores) ==
  IF core_scores = <<>>
  THEN (IF non_core_scores # <<>> THEN mean(non_core_scores) ELSE R(100))
  ELSE IF non_core_scores = <<>> THEN mean(core_scores)
  ELSE RAdd(RMul(core_weight, mean(core_scores)),
            RMul(RAdd(R(1), RMul(R(-1), core_weight)), mean(non_core_scores)))

skills_percent_normalized(req_norm, cand_norm) ==
  combine_skill_scores(match_scores(SelectSeq(req_norm, skill_is_core), cand_norm),
                       match_scores(SelectSeq(req_norm, not_core), cand_norm))

compute_skills_percent(required_skills, candidate_skills) ==
  IF required_skills = <<>> THEN R(100)
  ELSE skills_percent_normalized(normalize_all(required_skills),
                                 normalize_all(candidate_skills))

interest_score(candidate_interest, internship_post) ==
  LET c_int == normalize_skill(candidate_interest)
      i_post == normalize_skill(internship_post)
      c_tokens == tokens(replace(c_int, "-", " "))
      i_tokens == tokens(replace(i_post, "-", " "))
  IN IF c_int = "" \/ i_post = "" THEN R(0)
     ELSE IF Contains(c_int, i_post) THEN R(100)
     ELSE IF c_tokens \cap i_tokens # {} THEN R(50)
     ELSE R(25)

weights_heavy == <<Frac(5, 10), Frac(3, 10), Frac(2, 10), Frac(1, 10)>>

\* weights = {1: 0.4, 2: 0.3, 3: 0.2, 4: 0.1}
weights == <<Frac(4, 10), Frac(3, 10), Frac(2, 10), Frac(1, 10)>>

Criteria == {"skills", "education", "location", "interest"}

\* scores.get(criteria, 0.0)
scores_get(scores, criteria) ==
  IF criteria \in DOMAIN scores THEN scores[criteria] ELSE R(0)

overall_score_renormalised(scores, priority_order) ==
  LET F[i \in 0..Len(priority_order)] ==
        IF i = 0 THEN R(0)
        ELSE RAdd(F[i - 1], RMul(scores_get(scores, priority_order[i]), weights[i]))
      W[i \in 0..Len(priority_order)] ==
        IF i = 0 THEN R(0) ELSE RAdd(W[i - 1], weights[i])
  IN IF priority_order = <<>> THEN R(0)
     ELSE RMul(F[Len(priority_order)],
               Frac(W[Len(priority_order)].d, W[Len(priority_order)].n))

overall_score(scores, priority_order) ==
  LET F[i \in 0..Len(priority_order)] ==
        IF i = 0 THEN R(0)
        ELSE RAdd(F[i - 1], RMul(scores_get(scores, priority_order[i]), weights[i]))
  IN F[Len(priority_order)]

(***************************************************************************)
(* 4. Core application logic                                               *)
(***************************************************************************)
\* The markers are pictographs in the source; they are written here by name.
get_diversity_marker(row) ==
  LET gender == upper(row.gender)
      category == upper(row.category)
      m1 == IF Contains(gender, "FEMALE") THEN <<"(F)">> ELSE <<>>
      m2 == IF Contains(category, "PWD") THEN Append(m1, "(PWD)") ELSE m1
      m3 == IF Contains(category, "SC") THEN Append(m2, "(SC)") ELSE m2
      markers == IF Contains(category, "ST") THEN Append(m3, "(ST)") ELSE m3
      J[i \in 0..Len(markers)] ==
        IF i = 0 THEN ""
        ELSE IF i = 1 THEN markers[1]
        ELSE J[i - 1] \o " " \o markers[i]
  IN J[Len(markers)]

\* The four criterion scores of one row of compute_ranking's loop, not rounded
ranking_scores(row, internship) ==
  [skills |-> compute_skills_percent(internship.skills, parse_skills(row.skills)),
   education |-> education_score(row.education, internship.degree, internship.branch),
   location |-> location_score(row.city, row.state, internship.city, internship.state),
   interest |-> interest_score(row.interest, internship.post)]

is_yes(past_participation) == upper(strip(past_participation)) = "YES"

\* total: the weighted sum or, with no priority order, the mean; then the penalty
ranking_total(scores, priority, past_participation) ==
  RMul(IF priority # <<>> THEN overall_score(scores, priority)
       ELSE mean(<<scores.skills, scores.education, scores.location, scores.interest>>),
       IF is_yes(past_participation) THEN Frac(80, 100) ELSE R(1))

ranking_record(row, scores, total) ==
  [Name |-> row.name,
   Diversity |-> get_diversity_marker(row),
   Past_Participant |-> IF is_yes(row.past_participation) THEN "Yes" ELSE "No",
   Overall_Match |-> round2(total),
   Skills |-> round2(scores.skills),
   Education |-> round2(scores.education),
   Location |-> round2(scores.location),
   Interest |-> round2(scores.interest),
   Gender |-> upper(row.gender),
   Category |-> upper(row.category)]

ranking_scored(row, internship, scores) ==
  ranking_record(row, scores,
                 ranking_total(scores, internship.priority, row.past_participation))

\* One turn of compute_ranking's loop: the record appended to rows
ranking_row(row, internship) ==
  ranking_scored(row, internship, ranking_scores(row, internship))

(***************************************************************************)
(* 5. Smart allotment                                                      *)
(***************************************************************************)
is_diversity_candidate(row) ==
  LET category == upper(row.category)
  IN \E c \in {"SC", "ST", "PWD"} : Contains(category, c)

\* The four criterion scores, each rounded to two places
rounded_scores(candidate_row, internship) ==
  [skills |-> round2(compute_skills_percent(internship.skills,
                                            parse_skills(candidate_row.skills))),
   education |-> round2(education_score(candidate_row.education,
                                        internship.degree, internship.branch)),
   location |-> round2(location_score(candidate_row.city, candidate_row.state,
                                      internship.city, internship.state)),
   interest |-> round2(interest_score(candidate_row.interest, internship.post))]

penalised_compounded(total, past_participation) ==
  IF is_yes(past_participation)
  THEN round2(RMul(round2(RMul(total, Frac(80, 100))), Frac(80, 100)))
  ELSE total

\* total = round(total * 0.80, 2) for a past participant
penalised(total, past_participation) ==
  IF is_yes(past_participation) THEN round2(RMul(total, Frac(80, 100))) ELSE total

with_total(scores, total) ==
  [skills |-> scores.skills, education |-> scores.education,
   location |-> scores.location, interest |-> scores.interest, total |-> total]

scores_with_total(scores, priority, past_participation) ==
  with_total(scores, penalised(round2(overall_score(scores, priority)),
                               past_participation))

calculate_all_scores_for_job(candidate_row, internship) ==
  scores_with_total(rounded_scores(candidate_row, internship), internship.priority,
                    candidate_row.past_participation)

sorted_unstable(matches) ==
  LET Insert(acc, m) ==
        LET k == Cardinality({i \in DOMAIN acc : RLt(m.total_score, acc[i].total_score)})
        IN SubSeq(acc, 1, k) \o <<m>> \o SubSeq(acc, k + 1, Len(acc))
      F[i \in 0..Len(matches)] ==
        IF i = 0 THEN <<>> ELSE Insert(F[i - 1], matches[i])
  IN F[Len(matches)]

\* sorted(matches, key=total_score, reverse=True): stable, equal scores keep
\* their order
sorted_by_total_score(matches) ==
  LET Insert(acc, m) ==
        LET k == Cardinality({i \in DOMAIN acc : RLe(m.total_score, acc[i].total_score)})
        IN SubSeq(acc, 1, k) \o <<m>> \o SubSeq(acc, k + 1, Len(acc))
      F[i \in 0..Len(matches)] ==
        IF i = 0 THEN <<>> ELSE Insert(F[i - 1], matches[i])
  IN F[Len(matches)]

\* next((c for c in pool if Test(c)), None): the index of the first, 0 for None
first_index(pool, Test(_)) ==
  IF \E i \in DOMAIN pool : Test(pool[i])
  THEN CHOOSE i \in DOMAIN pool : Test(pool[i]) /\ \A j \in 1..(i - 1) : ~Test(pool[j])
  ELSE 0

(***************************************************************************)
(* Inputs of one allocation run                                            *)
(***************************************************************************)
MaxCands == 3
MaxJobs == 2
MaxOffers == 2

\* The in-memory candidate table the service starts with
sample_data ==
  <<[name |-> "Priya Sharma", education |-> "B.TECH CS",
     skills |-> "PYTHON;AIML;MS EXCEL", city |-> "Mumbai", state |-> "Maharashtra",
     interest |-> "AI and Machine Learning", gender |-> "FEMALE",
     category |-> "GENERAL", past_participation |-> "NO"],
    [name |-> "Rohan Verma (PWD)", education |-> "B.TECH IT",
     skills |-> "JAVA;WEB DEVELOPMENT;COMMUNICATION", city |-> "Pune",
     state |-> "Maharashtra", interest |-> "Full Stack Development",
     gender |-> "MALE", category |-> "PWD", past_participation |-> "YES"],
    [name |-> "Aisha Khan", education |-> "B.COM ACCOUNTS",
     skills |-> "TALLY;GST;MS EXCEL", city |-> "Mumbai", state |-> "Maharashtra",
     interest |-> "Accounting and Finance", gender |-> "FEMALE",
     category |-> "GENERAL", past_participation |-> "NO"],
    [name |-> "Suresh Gupta (SC)", education |-> "12TH PASS",
     skills |-> "DATA ENTRY;MS WORD", city |-> "Delhi", state |-> "Delhi",
     interest |-> "Office Administration", gender |-> "MALE",
     category |-> "SC", past_participation |-> "NO"]>>

\* Uploaded rows: the first two sample rows under any of these names, genders
\* and categories.  Row i is named CandNames[i], or shares the first row's name.
CandNames == <<"Asha", "Bala", "Chitra", "Dev", "Esha">>
Genders == {"Female", "MALE"}
Categories == {"GENERAL", "sc"}
Profiles == {sample_data[1], sample_data[2]}

CandRows(i) ==
  {[p EXCEPT !.name = nm, !.gender = g, !.category = c] :
     p \in Profiles, nm \in {CandNames[i], CandNames[1]}, g \in Genders, c \in Categories}

CandidateTables ==
  UNION {{t \in [1..n -> UNION {CandRows(i) : i \in 1..n}] :
            \A i \in 1..n : t[i] \in CandRows(i)} : n \in 1..MaxCands}

\* Selected positions: presets job1 and job2 in any order, a key possibly
\* selected twice, each key with any capacity up to MaxOffers.
JobKeys == {"job1", "job2"}

preset_lookup(key) ==
  PresetJobs[CHOOSE i \in DOMAIN PresetJobs : PresetJobs[i].key = key]

JobLists ==
  {[i \in 1..n |-> [preset_lookup(ks[i]) EXCEPT !.offers = off[ks[i]]]] :
     <<n, ks, off>> \in
       {c \in UNION {{n} \X [1..n -> JobKeys] \X [JobKeys -> 0..MaxOffers] :
                       n \in 1..MaxJobs} :
          \A k \in JobKeys : k \in Range(c[2]) \/ c[3][k] = 0}}

\* The scores read only these fields of a row and of a job.  The call of
\* calculate_all_scores_for_job in Step 1 is evaluated once for each distinct
\* pair of them and looked up afterwards.
scored_fields(row) ==
  [education |-> row.education, skills |-> row.skills, city |-> row.city,
   state |-> row.state, interest |-> row.interest,
   past_participation |-> row.past_participation]

all_scores_table ==
  [r \in {scored_fields(p) : p \in Profiles}, k \in JobKeys |->
     calculate_all_scores_for_job(r, preset_lookup(k))]

all_scores_of(row, job) ==
  IF /\ scored_fields(row) \in {scored_fields(p) : p \in Profiles}
     /\ job.key \in JobKeys
     /\ [job EXCEPT !.offers = 0] = [preset_lookup(job.key) EXCEPT !.offers = 0]
  THEN all_scores_table[scored_fields(row), job.key]
  ELSE calculate_all_scores_for_job(row, job)

\* One entry of all_scores_matrix
matrix_entry(row, job) ==
  LET all_scores_dict == all_scores_of(row, job)
  IN [candidate_name |-> row.name,
      row_data |-> row,
      job_key |-> job.key,
      post |-> job.post,
      total_score |-> all_scores_dict.total,
      all_scores |-> all_scores_dict,
      is_female |-> Contains(upper(row.gender), "FEMALE"),
      is_diversity |-> is_diversity_candidate(row)]

(***************************************************************************)
(* generate_smart_allotment as a state machine                             *)
(***************************************************************************)
VARIABLES
  df_candidates,            \* the candidate table, a sequence of rows
  selected_jobs,            \* the selected positions, a sequence of jobs
  pc,                       \* the step the run is at
  all_scores_matrix,        \* Step 1: one entry per (row, job)
  allotment_pools,          \* Step 2: job key -> its entries, best first
  final_allotment_map,      \* job key -> the entries allotted to it
  allocated_candidates_set, \* names given any job
  job_i,                    \* Pass 1: index of the job being served
  remaining_matches_pool,   \* Pass 2: entries of unallocated names, best first
  match_i,                  \* Pass 2: index of the entry being looked at
  final_results_list,       \* Step 5: the returned list
  sc_row,                   \* scoring: the candidate row scored
  sc_job,                   \* scoring: the position it is scored against
  sc_pc,                    \* scoring: the call made next
  skill_out,                \* <<>> or the result of the skill matcher
  job_scores,               \* <<>> or the result of calculate_all_scores_for_job
  ranking_out,              \* <<>> or the record of compute_ranking's loop
  skill_more,               \* <<>> or the matcher's result with one more skill held
  rows,                     \* compute_ranking: the records built so far
  df_ranked,                \* compute_ranking: <<>> or the list returned
  DF_CANDIDATES,            \* the server's candidate table (module global)
  upload_file,              \* <<>> or the file an upload request is reading
  responses                 \* the responses sent so far, oldest first

allocVars ==
  <<df_candidates, selected_jobs, pc, all_scores_matrix, allotment_pools,
    final_allotment_map, allocated_candidates_set, job_i, remaining_matches_pool,
    match_i, final_results_list>>

scoreVars == <<sc_row, sc_job, sc_pc, skill_out, job_scores, ranking_out, skill_more>>

rankVars == <<rows, df_ranked>>

serverVars == <<DF_CANDIDATES, upload_file, responses>>

vars == <<allocVars, scoreVars, rankVars, serverVars>>

job_keys == {selected_jobs[i].key : i \in DOMAIN selected_jobs}

Init ==
  /\ df_candidates \in CandidateTables
  /\ selected_jobs \in JobLists
  /\ pc = "matrix"
  /\ all_scores_matrix = <<>>
  /\ allotment_pools = <<>>
  /\ final_allotment_map = <<>>
  /\ allocated_candidates_set = {}
  /\ job_i = 0
  /\ remaining_matches_pool = <<>>
  /\ match_i = 0
  /\ final_results_list = <<>>
  /\ sc_row = <<>>
  /\ sc_job = <<>>
  /\ sc_pc = "idle"
  /\ skill_out = <<>>
  /\ job_scores = <<>>
  /\ ranking_out = <<>>
  /\ skill_more = <<>>
  /\ rows = <<>>
  /\ df_ranked = <<>>
  /\ DF_CANDIDATES = <<>>
  /\ upload_file = <<>>
  /\ responses = <<>>

\* Step 1: the master score matrix, candidate-major
BuildMatrix ==
  /\ pc = "matrix"
  /\ all_scores_matrix' =
       [k \in 1..(Len(df_candidates) * Len(selected_jobs)) |->
          matrix_entry(df_candidates[((k - 1) \div Len(selected_jobs)) + 1],
                       selected_jobs[((k - 1) % Len(selected_jobs)) + 1])]
  /\ pc' = "pools"
  /\ UNCHANGED <<df_candidates, selected_jobs, allotment_pools, final_allotment_map,
                 allocated_candidates_set, job_i, remaining_matches_pool, match_i,
                 final_results_list, scoreVars, rankVars, serverVars>>

\* Step 2: a sorted pool per job key; then the empty map and set of Step 3
pool_of(matrix, job_key) ==
  LET OfJob(m) == m.job_key = job_key
  IN sorted_by_total_score(SelectSeq(matrix, OfJob))

kept_allocated_candidates_set == allocated_candidates_set

\* allocated_candidates_set = set()
new_allocated_candidates_set == {}

BuildPools ==
  /\ pc = "pools"
  /\ allotment_pools' = [k \in job_keys |-> pool_of(all_scores_matrix, k)]
  /\ final_allotment_map' = [k \in job_keys |-> <<>>]
  /\ allocated_candidates_set' = new_allocated_candidates_set
  /\ job_i' = 1
  /\ pc' = "pass1"
  /\ UNCHANGED <<df_candidates, selected_jobs, all_scores_matrix,
                 remaining_matches_pool, match_i, final_results_list, scoreVars, rankVars, serverVars>>

\* Step 3, one job of the loop: offers == 0, continue
Pass1Skip ==
  /\ pc = "pass1"
  /\ job_i <= Len(selected_jobs)
  /\ selected_jobs[job_i].offers = 0
  /\ job_i' = job_i + 1
  /\ UNCHANGED <<df_candidates, selected_jobs, pc, all_scores_matrix, allotment_pools,
                 final_allotment_map, allocated_candidates_set,
                 remaining_matches_pool, match_i, final_results_list, scoreVars, rankVars, serverVars>>

reserve_first_replacing(pool, st, i) ==
  IF i # 0
  THEN [allotted |-> <<pool[i]>>,
        allocated |-> st.allocated \cup {pool[i].candidate_name}]
  ELSE st

\* next(...) over the pool for one quota, then the append and the add:
\* st is the job's list and the set of allocated names
reserve_first(pool, st, i) ==
  IF i # 0
  THEN [allotted |-> Append(st.allotted, pool[i]),
        allocated |-> st.allocated \cup {pool[i].candidate_name}]
  ELSE st

best_female_unavailable(pool, st) ==
  LET Wanted(c) == c.is_female
      i == first_index(pool, Wanted)
  IN IF i # 0 /\ pool[i].candidate_name \notin st.allocated
     THEN reserve_first(pool, st, i) ELSE st

best_female(pool, st) ==
  LET Wanted(c) == c.is_female /\ c.candidate_name \notin st.allocated
  IN reserve_first(pool, st, first_index(pool, Wanted))

best_diversity_reserved_too(pool, st) ==
  LET Wanted(c) == c.is_diversity
  IN reserve_first(pool, st, first_index(pool, Wanted))

best_diversity(pool, st) ==
  LET Wanted(c) == c.is_diversity /\ c.candidate_name \notin st.allocated
  IN reserve_first(pool, st, first_index(pool, Wanted))

\* The list and the set after one job of Pass 1: the best available female,
\* then the best available diversity candidate
pass1_reserve(pool, allotted, allocated) ==
  best_diversity(pool, best_female(pool, [allotted |-> allotted, allocated |-> allocated]))

Pass1Reserve ==
  /\ pc = "pass1"
  /\ job_i <= Len(selected_jobs)
  /\ selected_jobs[job_i].offers # 0
  /\ LET job_key == selected_jobs[job_i].key
         r == pass1_reserve(allotment_pools[job_key], final_allotment_map[job_key],
                            allocated_candidates_set)
     IN /\ final_allotment_map' = [final_allotment_map EXCEPT ![job_key] = r.allotted]
        /\ allocated_candidates_set' = r.allocated
  /\ job_i' = job_i + 1
  /\ UNCHANGED <<df_candidates, selected_jobs, pc, all_scores_matrix, allotment_pools,
                 remaining_matches_pool, match_i, final_results_list, scoreVars, rankVars, serverVars>>

remaining_pool_in_input_order(matrix, allocated) ==
  LET Free(m) == m.candidate_name \notin allocated
  IN SelectSeq(matrix, Free)

remaining_pool_best_pair_only(matrix, allocated) ==
  LET Free(m) == m.candidate_name \notin allocated
      pool == sorted_by_total_score(SelectSeq(matrix, Free))
      F[i \in 0..Len(pool)] ==
        IF i = 0 THEN <<>>
        ELSE IF \E j \in 1..(i - 1) : pool[j].candidate_name = pool[i].candidate_name
             THEN F[i - 1]
             ELSE Append(F[i - 1], pool[i])
  IN F[Len(pool)]

remaining_pool_of_everyone(matrix, allocated) ==
  sorted_by_total_score(matrix)

\* Step 4: the global pool of the entries whose name is not allocated
remaining_pool(matrix, allocated) ==
  LET Free(m) == m.candidate_name \notin allocated
  IN sorted_by_total_score(SelectSeq(matrix, Free))

BuildRemaining ==
  /\ pc = "pass1"
  /\ job_i > Len(selected_jobs)
  /\ remaining_matches_pool' = remaining_pool(all_scores_matrix, allocated_candidates_set)
  /\ match_i' = 1
  /\ pc' = "pass2"
  /\ UNCHANGED <<df_candidates, selected_jobs, all_scores_matrix, allotment_pools,
                 final_allotment_map, allocated_candidates_set, job_i,
                 final_results_list, scoreVars, rankVars, serverVars>>

job_offer_limits == [k \in job_keys |->
  selected_jobs[CHOOSE i \in DOMAIN selected_jobs :
                  selected_jobs[i].key = k
                  /\ \A j \in DOMAIN selected_jobs : selected_jobs[j].key = k => j <= i].offers]

pass2_takes_any_name(match, allotted, allocated, limit) ==
  Len(allotted) < limit

pass2_takes_at_limit(match, allotted, allocated, limit) ==
  match.candidate_name \notin allocated /\ Len(allotted) <= limit

pass2_takes_while_offers(match, allotted, allocated, limit) ==
  match.candidate_name \notin allocated /\ limit > 0

\* Whether Pass 2 allocates the entry it looks at
pass2_takes(match, allotted, allocated, limit) ==
  match.candidate_name \notin allocated /\ Len(allotted) < limit

jobs_after_allocating_one_offer_less(jobs, job_key) ==
  [i \in DOMAIN jobs |->
     IF jobs[i].key = job_key THEN [jobs[i] EXCEPT !.offers = @ - 1] ELSE jobs[i]]

\* The positions after a match is allocated: the space left is found by
\* comparing the length of the list with job_offer_limits, and job['offers'] is
\* only read
jobs_after_allocating(jobs, job_key) == jobs

\* Step 4, one entry of the loop
Pass2Match ==
  /\ pc = "pass2"
  /\ match_i <= Len(remaining_matches_pool)
  /\ LET match == remaining_matches_pool[match_i]
         c_name == match.candidate_name
         job_key == match.job_key
     IN IF pass2_takes(match, final_allotment_map[job_key], allocated_candidates_set,
                       job_offer_limits[job_key])
        THEN /\ final_allotment_map' =
                  [final_allotment_map EXCEPT ![job_key] = Append(@, match)]
             /\ allocated_candidates_set' = allocated_candidates_set \cup {c_name}
             /\ selected_jobs' = jobs_after_allocating(selected_jobs, job_key)
        ELSE UNCHANGED <<final_allotment_map, allocated_candidates_set, selected_jobs>>
  /\ match_i' = match_i + 1
  /\ UNCHANGED <<df_candidates, pc, all_scores_matrix, allotment_pools,
                 job_i, remaining_matches_pool, final_results_list, scoreVars, rankVars, serverVars>>

\* final_allotment_map.items(): the keys in the order they were inserted,
\* which is the order of their first selection
key_order ==
  LET FirstOf(i) == \A j \in 1..(i - 1) : selected_jobs[j].key # selected_jobs[i].key
      F[i \in 0..Len(selected_jobs)] ==
        IF i = 0 THEN <<>>
        ELSE IF FirstOf(i) THEN Append(F[i - 1], selected_jobs[i].key) ELSE F[i - 1]
  IN F[Len(selected_jobs)]

\* candidate_allotment_lookup: name -> the last entry stored under it
candidate_allotment_lookup ==
  LET order == key_order
      All[i \in 0..Len(order)] ==
        IF i = 0 THEN <<>> ELSE All[i - 1] \o final_allotment_map[order[i]]
      entries == All[Len(order)]
  IN [name \in {entries[i].candidate_name : i \in DOMAIN entries} |->
        entries[CHOOSE i \in DOMAIN entries :
                  /\ entries[i].candidate_name = name
                  /\ \A j \in DOMAIN entries : entries[j].candidate_name = name => j <= i]]

result_record_own_row(row, lookup) ==
  IF row.name \in DOMAIN lookup /\ lookup[row.name].row_data = row
  THEN LET match_data == lookup[row.name]
       IN [Name |-> row.name, Diversity |-> get_diversity_marker(row),
           Status |-> "Allotted", Allotted_Job |-> match_data.post,
           Match |-> match_data.total_score,
           Skills |-> match_data.all_scores.skills,
           Education |-> match_data.all_scores.education,
           Location |-> match_data.all_scores.location,
           Interest |-> match_data.all_scores.interest,
           Gender |-> upper(row.gender), Category |-> upper(row.category)]
  ELSE [Name |-> row.name, Diversity |-> get_diversity_marker(row),
        Status |-> "Waitlisted", Allotted_Job |-> "N/A",
        Match |-> R(0), Skills |-> R(0), Education |-> R(0), Location |-> R(0),
        Interest |-> R(0),
        Gender |-> upper(row.gender), Category |-> upper(row.category)]

\* One record of the output
result_record(row, lookup) ==
  IF row.name \in DOMAIN lookup
  THEN LET match_data == lookup[row.name]
       IN [Name |-> row.name, Diversity |-> get_diversity_marker(row),
           Status |-> "Allotted", Allotted_Job |-> match_data.post,
           Match |-> match_data.total_score,
           Skills |-> match_data.all_scores.skills,
           Education |-> match_data.all_scores.education,
           Location |-> match_data.all_scores.location,
           Interest |-> match_data.all_scores.interest,
           Gender |-> upper(row.gender), Category |-> upper(row.category)]
  ELSE [Name |-> row.name, Diversity |-> get_diversity_marker(row),
        Status |-> "Waitlisted", Allotted_Job |-> "N/A",
        Match |-> R(0), Skills |-> R(0), Education |-> R(0), Location |-> R(0),
        Interest |-> R(0),
        Gender |-> upper(row.gender), Category |-> upper(row.category)]

sort_results_ties_reversed(results) ==
  LET Before(a, b) == \* key(a) < key(b)
        \/ a.Status = "Allotted" /\ b.Status # "Allotted"
        \/ (a.Status = "Allotted") = (b.Status = "Allotted") /\ RLt(b.Match, a.Match)
      Insert(acc, r) ==
        LET k == Cardinality({i \in DOMAIN acc : Before(acc[i], r)})
        IN SubSeq(acc, 1, k) \o <<r>> \o SubSeq(acc, k + 1, Len(acc))
      F[i \in 0..Len(results)] ==
        IF i = 0 THEN <<>> ELSE Insert(F[i - 1], results[i])
  IN F[Len(results)]

\* list.sort(key=lambda x: (x['Status'] != 'Allotted', -x['Match %'])): stable
sort_results(results) ==
  LET Before(a, b) == \* key(a) <= key(b)
        \/ a.Status = "Allotted" /\ b.Status # "Allotted"
        \/ (a.Status = "Allotted") = (b.Status = "Allotted") /\ RLe(b.Match, a.Match)
      Insert(acc, r) ==
        LET k == Cardinality({i \in DOMAIN acc : Before(acc[i], r)})
        IN SubSeq(acc, 1, k) \o <<r>> \o SubSeq(acc, k + 1, Len(acc))
      F[i \in 0..Len(results)] ==
        IF i = 0 THEN <<>> ELSE Insert(F[i - 1], results[i])
  IN F[Len(results)]

\* Step 5: the lookup, one record per row, the final sort
FormatResults ==
  /\ pc = "pass2"
  /\ match_i > Len(remaining_matches_pool)
  /\ final_results_list' =
       sort_results([i \in DOMAIN df_candidates |->
                       result_record(df_candidates[i], candidate_allotment_lookup)])
  /\ pc' = "done"
  /\ UNCHANGED <<df_candidates, selected_jobs, all_scores_matrix, allotment_pools,
                 final_allotment_map, allocated_candidates_set, job_i,
                 remaining_matches_pool, match_i, scoreVars, rankVars, serverVars>>

Next ==
  \/ BuildMatrix
  \/ BuildPools
  \/ Pass1Skip
  \/ Pass1Reserve
  \/ BuildRemaining
  \/ Pass2Match
  \/ FormatResults

Spec == Init /\ [][Next]_vars

(***************************************************************************)
(* The scorers applied to one candidate row and one position               *)
(***************************************************************************)
ScoreRows ==
  {[name |-> "Alice", education |-> "B.TECH CS", skills |-> "PYTHON,AIML",
    city |-> "Pune", state |-> "Maharashtra", interest |-> "",
    gender |-> "female", category |-> "", past_participation |-> ""],
   [name |-> "Bharat", education |-> "b.sc it", skills |-> " golang ; ms excel",
    city |-> "Mumbai", state |-> "Maharashtra",
    interest |-> "Backend python-developer", gender |-> "MALE",
    category |-> "GENERAL", past_participation |-> "yes "],
   [name |-> "Chandra", education |-> "DIPLOMA EEE", skills |-> "MATLAB",
    city |-> "Delhi", state |-> "Delhi", interest |-> "Embedded",
    gender |-> "MALE", category |-> "ST", past_participation |-> "NO"],
   [name |-> "Divya", education |-> "12TH PASS", skills |-> "PYTHON3;JAVASCRIPT",
    city |-> "", state |-> "", interest |-> "Python Developer Intern at X",
    gender |-> "FEMALE", category |-> "SC", past_participation |-> "YES"],
   [name |-> "Eshan", education |-> "B.TECH CS",
    skills |-> "PYTHON;MS EXCEL;COMMUNICATION", city |-> "pune",
    state |-> "Maharashtra", interest |-> "python developer intern",
    gender |-> "MALE", category |-> "GENERAL", past_participation |-> "NO"],
   [name |-> "Farah", education |-> "", skills |-> "", city |-> "", state |-> "",
    interest |-> "", gender |-> "", category |-> "", past_participation |-> ""]}

RequiredSkillLists ==
  {<<"PYTHON">>, <<"PYTHON", "MS EXCEL">>, <<"MS EXCEL", "COMMUNICATION">>, <<>>,
   <<"python", "SQL", "Knitting">>}

\* Every order of distinct criterion names, the empty one included, and two
\* orders that repeat a name or use an unknown one
PriorityOrders ==
  UNION {{p \in [1..n -> Criteria] : \A i, j \in 1..n : i # j => p[i] # p[j]} :
           n \in 0..Cardinality(Criteria)}
    \cup {<<"skills", "skills", "skills", "skills">>, <<"skills", "stipend">>}

ScoreJobs ==
  {[key |-> "custom", post |-> "Python Developer Intern", company |-> "Acme",
    offers |-> 1, degree |-> <<"B.TECH">>, branch |-> <<"CS", "IT">>,
    skills |-> sk, city |-> "Pune", state |-> "Maharashtra", priority |-> pr] :
     sk \in RequiredSkillLists, pr \in PriorityOrders}

InitScore ==
  /\ sc_row \in ScoreRows
  /\ sc_job \in ScoreJobs
  /\ sc_pc = "skills"
  /\ skill_out = <<>>
  /\ job_scores = <<>>
  /\ ranking_out = <<>>
  /\ skill_more = <<>>
  /\ rows = <<>>
  /\ df_ranked = <<>>
  /\ DF_CANDIDATES = <<>>
  /\ upload_file = <<>>
  /\ responses = <<>>
  /\ df_candidates = <<>>
  /\ selected_jobs = <<>>
  /\ pc = "idle"
  /\ all_scores_matrix = <<>>
  /\ allotment_pools = <<>>
  /\ final_allotment_map = <<>>
  /\ allocated_candidates_set = {}
  /\ job_i = 0
  /\ remaining_matches_pool = <<>>
  /\ match_i = 0
  /\ final_results_list = <<>>

\* The skill matcher on the row's parsed skills: best_match_for_required_skill
\* for each required skill, and compute_skills_percent
ScoreSkills ==
  /\ sc_pc = "skills"
  /\ LET c_skills == parse_skills(sc_row.skills)
         cand_norm == [i \in DOMAIN c_skills |-> normalize_skill(c_skills[i])]
     IN skill_out' =
          <<[matches |-> [i \in DOMAIN sc_job.skills |->
                            best_match_for_required_skill(sc_job.skills[i], cand_norm)],
             percent |-> compute_skills_percent(sc_job.skills, c_skills)]>>
  /\ sc_pc' = "job"
  /\ UNCHANGED <<sc_row, sc_job, job_scores, ranking_out, skill_more, allocVars, rankVars, serverVars>>

\* The allocation engine's scoring of the pair (Step 1 of the allotment)
ScoreForJob ==
  /\ sc_pc = "job"
  /\ job_scores' = <<calculate_all_scores_for_job(sc_row, sc_job)>>
  /\ sc_pc' = "ranking"
  /\ UNCHANGED <<sc_row, sc_job, skill_out, ranking_out, skill_more, allocVars, rankVars, serverVars>>

\* The ranking service's scoring of the pair
ScoreForRanking ==
  /\ sc_pc = "ranking"
  /\ ranking_out' = <<ranking_row(sc_row, sc_job)>>
  /\ sc_pc' = "done"
  /\ UNCHANGED <<sc_row, sc_job, skill_out, job_scores, skill_more, allocVars, rankVars, serverVars>>

\* The skill matcher again, the row now holding one more skill: required skill i
\* as the position writes it, or normalised as parse_skills would store it
ScoreSkillsAppended ==
  /\ sc_pc = "done"
  /\ skill_more = <<>>
  /\ \E i \in DOMAIN sc_job.skills :
       \E added \in {sc_job.skills[i], normalize_skill(sc_job.skills[i])} :
         skill_more' =
           <<[required |-> i,
              added |-> added,
              matches |-> [j \in DOMAIN sc_job.skills |->
                             best_match_for_required_skill(
                               sc_job.skills[j],
                               Append(normalize_all(parse_skills(sc_row.skills)), added))],
              percent |-> compute_skills_percent(
                            sc_job.skills, Append(parse_skills(sc_row.skills), added))]>>
  /\ UNCHANGED <<sc_row, sc_job, sc_pc, skill_out, job_scores, ranking_out, allocVars, rankVars, serverVars>>

NextScore ==
  \/ ScoreSkills
  \/ ScoreForJob
  \/ ScoreForRanking
  \/ ScoreSkillsAppended

SpecScore == InitScore /\ [][NextScore]_vars

(***************************************************************************)
(* Properties of the allocation run (Spec)                                 *)
(***************************************************************************)
row_is_female(row) == Contains(upper(row.gender), "FEMALE")

row_is_flagged(row) == row_is_female(row) \/ is_diversity_candidate(row)

\* The number of entries of name in all allotment lists together
times_allotted(name) ==
  LET order == key_order
      N[i \in 0..Len(order)] ==
        IF i = 0 THEN 0
        ELSE N[i - 1] + Cardinality({j \in DOMAIN final_allotment_map[order[i]] :
                                       final_allotment_map[order[i]][j].candidate_name = name})
  IN IF pc \in {"matrix", "pools", "idle"} THEN 0 ELSE N[Len(order)]

results_with_status(status) ==
  {i \in DOMAIN final_results_list : final_results_list[i].Status = status}

\* The status reported for row i of the table (the records of one name agree)
status_of_row(i) ==
  LET k == CHOOSE j \in DOMAIN final_results_list :
             final_results_list[j].Name = df_candidates[i].name
  IN final_results_list[k].Status

\* C1: at the end of a run no position holds more candidates than its offers.
C1_CapacityRespected ==
  pc = "done" =>
    \A k \in job_keys : Len(final_allotment_map[k]) <= job_offer_limits[k]

\* C2: a name is in at most one allotment list, once; the output holds one
\* record per input row, each Allotted or Waitlisted, and the two counts add up
\* to the number of rows.
C2_OneOutcomePerCandidate ==
  /\ \A i \in DOMAIN df_candidates : times_allotted(df_candidates[i].name) <= 1
  /\ pc = "done" =>
       /\ Len(final_results_list) = Len(df_candidates)
       /\ \A i \in DOMAIN df_candidates :
            Cardinality({j \in DOMAIN final_results_list :
                           final_results_list[j].Name = df_candidates[i].name})
              = Cardinality({j \in DOMAIN df_candidates :
                               df_candidates[j].name = df_candidates[i].name})
       /\ Cardinality(results_with_status("Allotted"))
            + Cardinality(results_with_status("Waitlisted")) = Len(df_candidates)

C2_Witness ==
  /\ pc = "done"
  /\ Len(df_candidates) = 3
  /\ Len(selected_jobs) = 2
  /\ selected_jobs[1].key # selected_jobs[2].key
  /\ \A k \in job_keys : final_allotment_map[k] # <<>>
  /\ results_with_status("Allotted") # {}
  /\ results_with_status("Waitlisted") # {}

\* C3: a step of Pass 1 that serves a position with offers >= 1 while some
\* female row's name is not yet reserved appends a female entry, not reserved
\* before, to that position's list; and no step of Pass 1 shortens a list.
C3_QuotaPrecedence ==
  [][pc = "pass1" /\ job_i <= Len(selected_jobs) =>
       LET key == selected_jobs[job_i].key
           before == final_allotment_map[key]
           after == final_allotment_map'[key]
       IN /\ (/\ selected_jobs[job_i].offers >= 1
              /\ \E i \in DOMAIN df_candidates :
                   /\ row_is_female(df_candidates[i])
                   /\ df_candidates[i].name \notin allocated_candidates_set)
             => /\ Len(after) > Len(before)
                /\ after[Len(before) + 1].is_female
                /\ after[Len(before) + 1].candidate_name \notin allocated_candidates_set
          /\ \A k \in job_keys :
               SubSeq(final_allotment_map'[k], 1, Len(final_allotment_map[k]))
                 = final_allotment_map[k]]_vars

\* Pass 1 is over; the second position got a female although the first one had
\* reserved another
C3_Witness ==
  /\ pc = "pass1"
  /\ Len(selected_jobs) = 2
  /\ job_i = 3
  /\ selected_jobs[1].key # selected_jobs[2].key
  /\ \A k \in job_keys : final_allotment_map[k] # <<>> /\ final_allotment_map[k][1].is_female

\* One position with one offer and two rows whose totals for it are equal
C4_Case ==
  /\ pc = "done"
  /\ Len(selected_jobs) = 1
  /\ selected_jobs[1].offers = 1
  /\ Len(df_candidates) = 2
  /\ all_scores_matrix[1].total_score = all_scores_matrix[2].total_score

\* C4 as stated: in that case the first row is Allotted whatever the flags.
C4_FirstAllottedWhateverFlags ==
  C4_Case => status_of_row(1) = "Allotted"

\* C4 amended: in that case the first row is Allotted exactly when it is female
\* or diversity-flagged itself, or the second row is neither (or the two share a
\* name); and with no flag on either the second row is Waitlisted.
C4_StableTieBreak ==
  C4_Case =>
    /\ status_of_row(1) = "Allotted"
         <=> \/ row_is_flagged(df_candidates[1])
             \/ ~row_is_flagged(df_candidates[2])
             \/ df_candidates[1].name = df_candidates[2].name
    /\ (/\ ~row_is_flagged(df_candidates[1])
        /\ ~row_is_flagged(df_candidates[2])
        /\ df_candidates[1].name # df_candidates[2].name)
         => status_of_row(2) = "Waitlisted"

C4_Witness ==
  /\ C4_Case
  /\ ~row_is_flagged(df_candidates[1])
  /\ ~row_is_flagged(df_candidates[2])
  /\ df_candidates[1].name # df_candidates[2].name
  /\ status_of_row(1) = "Allotted"
  /\ status_of_row(2) = "Waitlisted"

\* C5: the allotment list of a position with zero offers is empty in every
\* state of the run, and no record of the output is Allotted to its post.
C5_ZeroCapacityStaysEmpty ==
  /\ \A k \in DOMAIN final_allotment_map :
       job_offer_limits[k] = 0 => final_allotment_map[k] = <<>>
  /\ pc = "done" =>
       \A i \in DOMAIN final_results_list, j \in DOMAIN selected_jobs :
         (final_results_list[i].Status = "Allotted" /\ selected_jobs[j].offers = 0)
           => final_results_list[i].Allotted_Job # selected_jobs[j].post

\* The run ends with a zero-offer position selected first, every seat of the other
\* position taken and a candidate left over
C5_Witness ==
  /\ pc = "done"
  /\ Len(selected_jobs) = 2
  /\ selected_jobs[1].offers = 0
  /\ selected_jobs[2].offers > 0
  /\ Len(final_allotment_map[selected_jobs[2].key]) >= selected_jobs[2].offers
  /\ final_allotment_map[selected_jobs[1].key] = <<>>
  /\ results_with_status("Waitlisted") # {}

(***************************************************************************)
(* Properties of the scorers (SpecScore)                                   *)
(***************************************************************************)
in_0_100(x) == RLe(R(0), x) /\ RLe(x, R(100))

\* C7: the four criterion scores and the overall score of a scored pair lie in
\* [0, 100], in the allotment's scoring and in the ranking's.
C7_ScoresInRange ==
  /\ job_scores # <<>> =>
       /\ in_0_100(job_scores[1].skills)
       /\ in_0_100(job_scores[1].education)
       /\ in_0_100(job_scores[1].location)
       /\ in_0_100(job_scores[1].interest)
       /\ in_0_100(job_scores[1].total)
  /\ ranking_out # <<>> =>
       /\ in_0_100(ranking_out[1].Skills)
       /\ in_0_100(ranking_out[1].Education)
       /\ in_0_100(ranking_out[1].Location)
       /\ in_0_100(ranking_out[1].Interest)
       /\ in_0_100(ranking_out[1].Overall_Match)

\* Every criterion at 100 under a full priority order: the overall score is 100
C7_Witness ==
  /\ sc_pc = "done"
  /\ Len(sc_job.priority) = 4
  /\ job_scores[1].skills = R(100)
  /\ job_scores[1].education = R(100)
  /\ job_scores[1].location = R(100)
  /\ job_scores[1].interest = R(100)
  /\ job_scores[1].total = R(100)
  /\ ranking_out[1].Overall_Match = R(100)

\* Where a skill sits in the tree: its top-level domain and its subgroup
domain_of(skill) ==
  CHOOSE row1 \in DOMAIN CORE_TREE : \E row2 \in DOMAIN CORE_TREE[row1] :
    skill \in Range(CORE_TREE[row1][row2])

subgroup_of(skill) ==
  CHOOSE row2 \in DOMAIN CORE_TREE[domain_of(skill)] :
    skill \in Range(CORE_TREE[domain_of(skill)][row2])

\* The skills the matcher is given for the row scored
row_skills == normalize_all(parse_skills(sc_row.skills))

\* Required skill i is core; no skill of the row equals it, contains it, is
\* contained in it or shares its subgroup; one is core in its top-level domain.
cross_subgroup_case(i) ==
  LET req == normalize_skill(sc_job.skills[i])
  IN /\ req \in CoreSkills
     /\ \A cs \in Range(row_skills) :
          /\ cs # req
          /\ ~Contains(cs, req)
          /\ ~Contains(req, cs)
          /\ cs \in CoreSkills => subgroup_of(cs) # subgroup_of(req)
     /\ \E cs \in Range(row_skills) :
          cs \in CoreSkills /\ domain_of(cs) = domain_of(req)

\* C8: in that case best_match_for_required_skill scores 10.
C8_SameDomainScoresTen ==
  skill_out # <<>> =>
    \A i \in DOMAIN sc_job.skills :
      cross_subgroup_case(i) => skill_out[1].matches[i][1] = 10

\* The averages of the per-skill scores the matcher returned, by partition
required_core == {i \in DOMAIN sc_job.skills : normalize_skill(sc_job.skills[i]) \in CoreSkills}

required_non_core == DOMAIN sc_job.skills \ required_core

RECURSIVE sum_of_matches(_)
sum_of_matches(idx) ==
  IF idx = {} THEN 0
  ELSE LET i == CHOOSE j \in idx : TRUE
       IN skill_out[1].matches[i][1] + sum_of_matches(idx \ {i})

average_of_matches(idx) == Frac(sum_of_matches(idx), Cardinality(idx))

average_or_100(idx) == IF idx = {} THEN R(100) ELSE average_of_matches(idx)

weighted_average(avg_core, avg_non_core) ==
  RAdd(RMul(Frac(8, 10), avg_core), RMul(Frac(2, 10), avg_non_core))

\* C9 as stated: for a non-empty required list the result is 0.8 * avgCore +
\* 0.2 * avgNonCore, the average of an empty partition taken as 100.
C9_WeightedWithEmptyAs100 ==
  (skill_out # <<>> /\ sc_job.skills # <<>>) =>
    skill_out[1].percent = weighted_average(average_or_100(required_core),
                                            average_or_100(required_non_core))

\* C9 amended: for a non-empty required list the result is 0.8 * avgCore +
\* 0.2 * avgNonCore when core and non-core skills are both required, avgCore
\* when only core skills are, and avgNonCore when only non-core skills are.
C9_SkillsPercent ==
  (skill_out # <<>> /\ sc_job.skills # <<>>) =>
    skill_out[1].percent =
      IF required_core = {} THEN average_of_matches(required_non_core)
      ELSE IF required_non_core = {} THEN average_of_matches(required_core)
      ELSE weighted_average(average_of_matches(required_core),
                            average_of_matches(required_non_core))

\* Only a core skill is required and the row's best match for it is in its subgroup
C9_Witness ==
  /\ skill_out # <<>>
  /\ sc_job.skills = <<"PYTHON">>
  /\ skill_out[1].matches[1][1] = 50
  /\ skill_out[1].percent = R(50)

\* C10: with an empty priority order the overall score of a row that is no past
\* participant is the mean of its four criterion scores, in both scoring paths.
C10_MeanWithoutPriority ==
  (sc_job.priority = <<>> /\ ~is_yes(sc_row.past_participation)) =>
    /\ job_scores # <<>> =>
         job_scores[1].total =
           round2(mean(<<job_scores[1].skills, job_scores[1].education,
                         job_scores[1].location, job_scores[1].interest>>))
    /\ ranking_out # <<>> =>
         ranking_out[1].Overall_Match =
           round2(mean(<<ranking_scores(sc_row, sc_job).skills,
                         ranking_scores(sc_row, sc_job).education,
                         ranking_scores(sc_row, sc_job).location,
                         ranking_scores(sc_row, sc_job).interest>>))

\* C11: holding one more skill, equal to a required skill, lowers neither
\* best_match_for_required_skill's score for that required skill (nor for any
\* other required skill of the list) nor compute_skills_percent.
C11_ExactSkillNeverLowers ==
  skill_more # <<>> =>
    /\ \A j \in DOMAIN sc_job.skills :
         skill_more[1].matches[j][1] >= skill_out[1].matches[j][1]
    /\ RLe(skill_out[1].percent, skill_more[1].percent)

\* A core required skill scored 50 on the row's own skills and 100 once the row
\* holds the skill itself, and the skills percent rose with it
C11_Witness ==
  /\ skill_more # <<>>
  /\ skill_more[1].added = normalize_skill(sc_job.skills[skill_more[1].required])
  /\ skill_out[1].matches[skill_more[1].required][1] = 50
  /\ skill_more[1].matches[skill_more[1].required][1] = 100
  /\ RLt(skill_out[1].percent, skill_more[1].percent)

\* The sort key of the record reported for a name (records of one name agree)
sort_key_of_name(name) ==
  LET k == CHOOSE j \in DOMAIN final_results_list : final_results_list[j].Name = name
  IN <<final_results_list[k].Status, final_results_list[k].Match>>

RECURSIVE keep_where(_, _)
keep_where(seq, Keep) ==
  IF seq = <<>> THEN <<>>
  ELSE (IF Keep[1] THEN <<seq[1]>> ELSE <<>>) \o keep_where(Tail(seq), Tail(Keep))

\* Who the output lists under one sort key, in output order, and who the input
\* holds under it, in input order
output_under(key) ==
  keep_where([i \in DOMAIN final_results_list |->
                <<final_results_list[i].Name, final_results_list[i].Gender,
                  final_results_list[i].Category>>],
             [i \in DOMAIN final_results_list |->
                <<final_results_list[i].Status, final_results_list[i].Match>> = key])

input_under(key) ==
  keep_where([i \in DOMAIN df_candidates |->
                <<df_candidates[i].name, upper(df_candidates[i].gender),
                  upper(df_candidates[i].category)>>],
             [i \in DOMAIN df_candidates |-> sort_key_of_name(df_candidates[i].name) = key])

\* C12: in the output every Allotted record precedes every Waitlisted one, the
\* Allotted records are in non-increasing Match, and the records under one sort
\* key are in the order of their rows in the input.
C12_OutputOrder ==
  pc = "done" =>
    /\ \A i, j \in DOMAIN final_results_list :
         i < j =>
           /\ final_results_list[i].Status = "Waitlisted"
                => final_results_list[j].Status = "Waitlisted"
           /\ (final_results_list[i].Status = "Allotted"
               /\ final_results_list[j].Status = "Allotted")
                => RLe(final_results_list[j].Match, final_results_list[i].Match)
    /\ \A i \in DOMAIN final_results_list :
         LET key == <<final_results_list[i].Status, final_results_list[i].Match>>
         IN output_under(key) = input_under(key)

\* The sort moved a later row to the front, and two rows of different names
\* share a sort key
C12_Witness ==
  /\ pc = "done"
  /\ Len(final_results_list) = 3
  /\ final_results_list[1].Status = "Allotted"
  /\ final_results_list[1].Name # df_candidates[1].name
  /\ final_results_list[2].Status = final_results_list[3].Status
  /\ final_results_list[2].Match = final_results_list[3].Match
  /\ final_results_list[2].Name # final_results_list[3].Name

(***************************************************************************)
(* compute_ranking as a state machine                                      *)
(***************************************************************************)
\* Candidate rows of the two sample profiles under three names
RankRows ==
  {[p EXCEPT !.name = CandNames[n]] : p \in Profiles, n \in 1..3}

RankTables == UNION {[1..n -> RankRows] : n \in 0..MaxCands}

RankJobs ==
  {j \in ScoreJobs : j.skills = <<"PYTHON">>
                     /\ j.priority \in {<<>>, <<"skills", "education", "location", "interest">>}}

InitRank ==
  /\ df_candidates \in RankTables
  /\ sc_job \in RankJobs
  /\ pc = "rank_rows"
  /\ rows = <<>>
  /\ df_ranked = <<>>
  /\ selected_jobs = <<>>
  /\ all_scores_matrix = <<>>
  /\ allotment_pools = <<>>
  /\ final_allotment_map = <<>>
  /\ allocated_candidates_set = {}
  /\ job_i = 0
  /\ remaining_matches_pool = <<>>
  /\ match_i = 0
  /\ final_results_list = <<>>
  /\ sc_row = <<>>
  /\ sc_pc = "idle"
  /\ skill_out = <<>>
  /\ job_scores = <<>>
  /\ ranking_out = <<>>
  /\ skill_more = <<>>
  /\ DF_CANDIDATES = <<>>
  /\ upload_file = <<>>
  /\ responses = <<>>

rankFrame ==
  <<df_candidates, sc_job, selected_jobs, all_scores_matrix, allotment_pools,
    final_allotment_map, allocated_candidates_set, job_i, remaining_matches_pool,
    match_i, final_results_list, sc_row, sc_pc, skill_out, job_scores, ranking_out,
    skill_more, serverVars>>

\* if df_candidates.empty: return pd.DataFrame()
RankEmpty ==
  /\ pc = "rank_rows"
  /\ df_candidates = <<>>
  /\ df_ranked' = <<<<>>>>
  /\ pc' = "ranked"
  /\ UNCHANGED <<rows, rankFrame>>

\* One turn of the loop over df_candidates.iterrows()
RankRow ==
  /\ pc = "rank_rows"
  /\ Len(rows) < Len(df_candidates)
  /\ rows' = Append(rows, ranking_row(df_candidates[Len(rows) + 1], sc_job))
  /\ UNCHANGED <<pc, df_ranked, rankFrame>>

\* sort_values(by="Overall Match %", ascending=False) with the default
\* kind="quicksort", which is not a stable sort: every order of the records that
\* is non-increasing in Overall Match % can come out
sort_values_orders(records) ==
  {p \in Permutations(DOMAIN records) :
     \A i, j \in DOMAIN records :
       i < j => RLe(records[p[j]].Overall_Match, records[p[i]].Overall_Match)}

\* reset_index(drop=True); index += 1; insert(1, "Rank", index)
with_rank(record, rank) == [Rank |-> rank] @@ record

\* The sort, the ranks and to_dict('records')
RankSort ==
  /\ pc = "rank_rows"
  /\ df_candidates # <<>>
  /\ Len(rows) = Len(df_candidates)
  /\ \E p \in sort_values_orders(rows) :
       df_ranked' = <<[i \in DOMAIN rows |-> with_rank(rows[p[i]], i)]>>
  /\ pc' = "ranked"
  /\ UNCHANGED <<rows, rankFrame>>

NextRank ==
  \/ RankEmpty
  \/ RankRow
  \/ RankSort

SpecRank == InitRank /\ [][NextRank]_vars

(***************************************************************************)
(* Properties of the ranking (SpecRank)                                    *)
(***************************************************************************)
\* The records of the ranking under one overall score, ranks left out, in output
\* order; and the records built for the rows under it, in input order
ranked_under(score) ==
  keep_where([i \in DOMAIN df_ranked[1] |->
                [f \in DOMAIN rows[1] |-> df_ranked[1][i][f]]],
             [i \in DOMAIN df_ranked[1] |-> df_ranked[1][i].Overall_Match = score])

rows_under(score) ==
  keep_where(rows, [i \in DOMAIN rows |-> rows[i].Overall_Match = score])

\* C13: the ranking holds one record per row, in non-increasing overall score,
\* ranked 1..N in that order, and rows of equal overall score in input order.
C13_RankingStable ==
  (pc = "ranked" /\ df_candidates # <<>>) =>
    /\ Len(df_ranked[1]) = Len(df_candidates)
    /\ \A i \in DOMAIN df_ranked[1] : df_ranked[1][i].Rank = i
    /\ \A i, j \in DOMAIN df_ranked[1] :
         i < j => RLe(df_ranked[1][j].Overall_Match, df_ranked[1][i].Overall_Match)
    /\ \A i \in DOMAIN df_ranked[1] :
         ranked_under(df_ranked[1][i].Overall_Match)
           = rows_under(df_ranked[1][i].Overall_Match)

(***************************************************************************)
(* generate_smart_allotment on one position of a custom shape              *)
(***************************************************************************)
\* A female candidate with skills PYTHON and AIML in Pune, under any education,
\* interest, category and past participation
ExampleRows ==
  {[name |-> "Alice", education |-> e, skills |-> "PYTHON,AIML", city |-> "Pune",
    state |-> "Maharashtra", interest |-> i, gender |-> "Female", category |-> c,
    past_participation |-> pp] :
     e \in {"B.TECH CS", "DIPLOMA EEE", ""}, i \in {"", "Python Developer Intern"},
     c \in {"GENERAL", "SC"}, pp \in {"NO", "YES"}}

\* Another candidate of the table: a woman or a man who fits the position fully
OtherRows ==
  {[name |-> nm, education |-> "B.TECH CS", skills |-> "PYTHON", city |-> "Pune",
    state |-> "Maharashtra", interest |-> "Python Developer Intern", gender |-> g,
    category |-> "GENERAL", past_participation |-> "NO"] :
     <<nm, g>> \in {<<"Bela", "Female">>, <<"Carl", "Male">>}}

ExampleTables ==
  {<<a>> : a \in ExampleRows}
    \cup {<<a, o>> : a \in ExampleRows, o \in OtherRows}
    \cup {<<o, a>> : a \in ExampleRows, o \in OtherRows}

\* One position in Pune that requires PYTHON, with one offer or none
ExampleJobs ==
  {[key |-> "P1", post |-> "Python Developer Intern", company |-> "Acme",
    offers |-> n, degree |-> d, branch |-> <<"CS", "IT">>, skills |-> <<"PYTHON">>,
    city |-> "Pune", state |-> "Maharashtra",
    priority |-> <<"skills", "education", "location", "interest">>] :
     d \in {<<"B.TECH">>, <<>>}, n \in {0, 1}}

InitExample ==
  /\ df_candidates \in ExampleTables
  /\ selected_jobs \in {<<j>> : j \in ExampleJobs}
  /\ pc = "matrix"
  /\ all_scores_matrix = <<>>
  /\ allotment_pools = <<>>
  /\ final_allotment_map = <<>>
  /\ allocated_candidates_set = {}
  /\ job_i = 0
  /\ remaining_matches_pool = <<>>
  /\ match_i = 0
  /\ final_results_list = <<>>
  /\ sc_row = <<>>
  /\ sc_job = <<>>
  /\ sc_pc = "idle"
  /\ skill_out = <<>>
  /\ job_scores = <<>>
  /\ ranking_out = <<>>
  /\ skill_more = <<>>
  /\ rows = <<>>
  /\ df_ranked = <<>>
  /\ DF_CANDIDATES = <<>>
  /\ upload_file = <<>>
  /\ responses = <<>>

SpecExample == InitExample /\ [][Next]_vars

\* The run is over and was on one position in Pune requiring PYTHON, one offer,
\* priority skills, education, location, interest
example_position ==
  /\ pc = "done"
  /\ Len(selected_jobs) = 1
  /\ normalize_skill(selected_jobs[1].city) = "PUNE"
  /\ selected_jobs[1].skills = <<"PYTHON">>
  /\ selected_jobs[1].offers = 1
  /\ selected_jobs[1].priority = <<"skills", "education", "location", "interest">>

\* The rows of a female candidate with skills PYTHON, AIML and city Pune
example_rows ==
  {i \in DOMAIN df_candidates :
     /\ row_is_female(df_candidates[i])
     /\ parse_skills(df_candidates[i].skills) = <<"PYTHON", "AIML">>
     /\ normalize_skill(df_candidates[i].city) = "PUNE"}

\* The record of the output for row i (names are distinct in these tables)
record_of_row(i) ==
  final_results_list[CHOOSE j \in DOMAIN final_results_list :
                       final_results_list[j].Name = df_candidates[i].name]

\* C14 as stated: such a candidate has skill score 100, location score 100 and
\* overall score at least 90, and is Allotted to the position.
C14_ExampleAtLeast90 ==
  example_position =>
    \A i \in example_rows :
      /\ all_scores_matrix[i].all_scores.skills = R(100)
      /\ all_scores_matrix[i].all_scores.location = R(100)
      /\ RLe(R(90), all_scores_matrix[i].total_score)
      /\ record_of_row(i).Status = "Allotted"
      /\ record_of_row(i).Allotted_Job = selected_jobs[1].post

\* 60 + 0.3 * education + 0.1 * interest
example_overall(scores) ==
  RAdd(R(60), RAdd(RMul(Frac(3, 10), scores.education), RMul(Frac(1, 10), scores.interest)))

\* No other female row scores higher for the position, or as high from an
\* earlier place in the table
best_female_row(i) ==
  \A j \in DOMAIN df_candidates :
    (j # i /\ row_is_female(df_candidates[j])) =>
      \/ RLt(all_scores_matrix[j].total_score, all_scores_matrix[i].total_score)
      \/ all_scores_matrix[j].total_score = all_scores_matrix[i].total_score /\ i < j

\* C14 amended: such a candidate has skill score 100 and location score 100; her
\* overall score is 60 + 0.3 * education + 0.1 * interest (0.8 times that,
\* rounded, for a past participant), so at least 60 (48), and at least 90 when
\* she is no past participant and her education score is 100; she is Allotted
\* to the position when no other female row scores higher or as high earlier.
C14_Example ==
  example_position =>
    \A i \in example_rows :
      LET scores == all_scores_matrix[i].all_scores
          total == all_scores_matrix[i].total_score
          past == is_yes(df_candidates[i].past_participation)
      IN /\ scores.skills = R(100)
         /\ scores.location = R(100)
         /\ ~past => /\ total = example_overall(scores)
                     /\ RLe(R(60), total)
                     /\ scores.education = R(100) => RLe(R(90), total)
         /\ past => /\ total = round2(RMul(Frac(8, 10), example_overall(scores)))
                    /\ RLe(R(48), total)
         /\ best_female_row(i) =>
              /\ record_of_row(i).Status = "Allotted"
              /\ record_of_row(i).Allotted_Job = selected_jobs[1].post

\* She is Allotted with an overall score under 90: her education does not fit
C14_Witness ==
  /\ example_position
  /\ \E i \in example_rows :
       /\ ~is_yes(df_candidates[i].past_participation)
       /\ RLt(all_scores_matrix[i].all_scores.education, R(100))
       /\ RLt(all_scores_matrix[i].total_score, R(90))
       /\ best_female_row(i)
       /\ Len(df_candidates) = 2
       /\ record_of_row(i).Status = "Allotted"

(***************************************************************************)
(* The server: the candidate table, uploads and allotment requests         *)
(***************************************************************************)
MaxRequests == 3

RECURSIVE lower(_)
lower(s) ==
  IF Len(s) = 0 THEN ""
  ELSE LET c == Char(s, 1)
       IN (IF \E l \in DOMAIN LowerToUpper : LowerToUpper[l] = c
           THEN CHOOSE l \in DOMAIN LowerToUpper : LowerToUpper[l] = c
           ELSE c)
            \o lower(SubSeq(s, 2, Len(s)))

endswith(s, suffix) ==
  Len(s) >= Len(suffix) /\ SubSeq(s, Len(s) - Len(suffix) + 1, Len(s)) = suffix

\* The fields of a candidate row, in the order a full CSV lists them
Columns ==
  <<"name", "education", "skills", "city", "state", "interest", "gender",
    "category", "past_participation">>

\* A CSV file: its name, its header line as written, and one line of cells per
\* row, the cells being the row's values of the given fields
csv_file(filename, header, fields, table) ==
  [filename |-> filename, header |-> header,
   data |-> [r \in DOMAIN table |-> [i \in DOMAIN fields |-> table[r][fields[i]]]]]

UploadTables ==
  {<<[sample_data[1] EXCEPT !.name = "Asha", !.gender = "Female", !.category = "GENERAL"],
     [sample_data[2] EXCEPT !.name = "Bala", !.gender = "MALE", !.category = "sc"]>>,
   <<[sample_data[2] EXCEPT !.name = "Bala", !.gender = "MALE", !.category = "sc"],
     [sample_data[1] EXCEPT !.name = "Chitra", !.gender = "Female", !.category = "sc"],
     [sample_data[1] EXCEPT !.name = "Asha", !.gender = "Female", !.category = "GENERAL"]>>,
   <<>>}

UploadFiles ==
  {csv_file("candidates.csv", Columns, Columns, t) : t \in UploadTables}
    \cup {csv_file("batch.csv",
                   <<" Name", "EDUCATION ", "Skills", "City", "State", "Interest",
                     "Gender", "Category", "Past_Participation">>,
                   Columns, t) : t \in UploadTables \ {<<>>}}
    \cup {csv_file("short.csv", <<"name", "skills", "City">>,
                   <<"name", "skills", "city">>, t) : t \in UploadTables \ {<<>>}}
    \cup {csv_file("candidates.xlsx", Columns, Columns, <<>>)}
    \cup {csv_file("empty.csv", <<>>, <<>>, <<>>)}

\* request.job_keys of an allotment request
KeyLists == {<<"job1">>, <<"job2", "job1">>, <<"job1", "job1">>, <<"job9">>, <<>>}

\* df.columns = df.columns.str.lower().str.strip()
normalized_columns(header) == [i \in DOMAIN header |-> strip(lower(header[i]))]

required_cols == {"name", "education", "skills", "city", "state"}

\* The rows of pd.read_csv's frame under the given column names
frame_rows(columns, data) ==
  [r \in DOMAIN data |->
     [c \in Range(columns) |-> data[r][CHOOSE i \in DOMAIN columns : columns[i] = c]]]

InitServer ==
  /\ DF_CANDIDATES = sample_data
  /\ upload_file = <<>>
  /\ responses = <<>>
  /\ pc = "idle"
  /\ df_candidates = <<>>
  /\ selected_jobs = <<>>
  /\ all_scores_matrix = <<>>
  /\ allotment_pools = <<>>
  /\ final_allotment_map = <<>>
  /\ allocated_candidates_set = {}
  /\ job_i = 0
  /\ remaining_matches_pool = <<>>
  /\ match_i = 0
  /\ final_results_list = <<>>
  /\ sc_row = <<>>
  /\ sc_job = <<>>
  /\ sc_pc = "idle"
  /\ skill_out = <<>>
  /\ job_scores = <<>>
  /\ ranking_out = <<>>
  /\ skill_more = <<>>
  /\ rows = <<>>
  /\ df_ranked = <<>>

\* Requests accepted so far: those answered and the upload being read
requests_taken == Len(responses) + Len(upload_file)

\* upload_candidate_csv up to await file.read(): the file type check
UploadStart ==
  /\ pc = "idle"
  /\ upload_file = <<>>
  /\ requests_taken < MaxRequests
  /\ \E file \in UploadFiles :
       IF ~endswith(file.filename, ".csv")
       THEN /\ responses' =
                 Append(responses,
                        [request |-> "upload", file |-> file, status_code |-> 400,
                         detail |-> [message |-> "Invalid file type. Please upload a CSV."]])
            /\ UNCHANGED upload_file
       ELSE /\ upload_file' = <<file>>
            /\ UNCHANGED responses
  /\ UNCHANGED <<DF_CANDIDATES, allocVars, scoreVars, rankVars>>

\* raise HTTPException(status_code=400, ...) for the missing columns
missing_columns_error(missing) ==
  [status_code |-> 400,
   detail |-> [message |-> "CSV is missing required columns", missing |-> missing]]

\* except Exception as e: raise HTTPException(status_code=500, ...); the
\* HTTPException raised inside the try block is an Exception and is caught too
processing_error(e) ==
  [status_code |-> 500, detail |-> [message |-> "Error processing file", cause |-> e]]

\* pd.read_csv raises EmptyDataError on content that has no header line
read_csv_fails(file) == file.header = <<>>

no_columns_error == [message |-> "No columns to parse from file"]

upload_outcome_failure_clears(file, stored) ==
  LET columns == normalized_columns(file.header)
  IN IF read_csv_fails(file)
     THEN [stored |-> <<>>, response |-> processing_error(no_columns_error)]
     ELSE IF ~(required_cols \subseteq Range(columns))
     THEN [stored |-> <<>>,
           response |-> processing_error(
                          missing_columns_error(required_cols \ Range(columns)))]
     ELSE [stored |-> frame_rows(columns, file.data),
           response |-> [status_code |-> 200,
                         body |-> [status |-> "success", rows_loaded |-> Len(file.data),
                                   filename |-> file.filename]]]

\* The try block after the read: parse, normalise and check the columns; what
\* DF_CANDIDATES is afterwards (stored is what it was) and what is answered
upload_outcome(file, stored) ==
  LET columns == normalized_columns(file.header)
  IN IF read_csv_fails(file)
     THEN [stored |-> stored, response |-> processing_error(no_columns_error)]
     ELSE IF ~(required_cols \subseteq Range(columns))
     THEN [stored |-> stored,
           response |-> processing_error(
                          missing_columns_error(required_cols \ Range(columns)))]
     ELSE [stored |-> frame_rows(columns, file.data),
           response |-> [status_code |-> 200,
                         body |-> [status |-> "success", rows_loaded |-> Len(file.data),
                                   filename |-> file.filename]]]

\* upload_candidate_csv after the read: parse, check the columns, store
UploadFinish ==
  /\ pc = "idle"
  /\ upload_file # <<>>
  /\ DF_CANDIDATES' = upload_outcome(upload_file[1], DF_CANDIDATES).stored
  /\ responses' =
       Append(responses,
              [request |-> "upload", file |-> upload_file[1]]
                @@ upload_outcome(upload_file[1], DF_CANDIDATES).response)
  /\ upload_file' = <<>>
  /\ UNCHANGED <<allocVars, scoreVars, rankVars>>

\* selected_jobs = [preset_lookup[key] for key in request.job_keys if key in preset_lookup]
jobs_of_keys(keys) ==
  LET Known(k) == \E i \in DOMAIN PresetJobs : PresetJobs[i].key = k
      known == SelectSeq(keys, Known)
  IN [i \in DOMAIN known |-> preset_lookup(known[i])]

\* generate_master_allotment up to the call of generate_smart_allotment
AllotStart ==
  /\ pc = "idle"
  /\ requests_taken < MaxRequests
  /\ \E keys \in KeyLists :
       LET refuse(code, message) ==
             /\ responses' =
                  Append(responses,
                         [request |-> "allotment", job_keys |-> keys,
                          status_code |-> code, detail |-> [message |-> message]])
             /\ UNCHANGED <<df_candidates, selected_jobs, pc>>
       IN IF DF_CANDIDATES = <<>>
          THEN refuse(400, "No candidate data loaded. Please upload a CSV first.")
          ELSE IF keys = <<>>
          THEN refuse(400, "No internship roles were selected for allotment.")
          ELSE IF jobs_of_keys(keys) = <<>>
          THEN refuse(404, "Selected job keys not found.")
          ELSE /\ df_candidates' = DF_CANDIDATES
               /\ selected_jobs' = jobs_of_keys(keys)
               /\ pc' = "matrix"
               /\ UNCHANGED responses
  /\ UNCHANGED <<all_scores_matrix, allotment_pools, final_allotment_map,
                 allocated_candidates_set, job_i, remaining_matches_pool, match_i,
                 final_results_list, DF_CANDIDATES, upload_file, scoreVars, rankVars>>

RECURSIVE total_offers(_)
total_offers(jobs) ==
  IF jobs = <<>> THEN 0 ELSE jobs[1].offers + total_offers(Tail(jobs))

\* generate_master_allotment after the call: the list and its summary
AllotRespond ==
  /\ pc = "done"
  /\ responses' =
       Append(responses,
              [request |-> "allotment",
               job_keys |-> [i \in DOMAIN selected_jobs |-> selected_jobs[i].key],
               status_code |-> 200,
               body |-> [allotment_list |-> final_results_list,
                         summary |->
                           [total_candidates |-> Len(DF_CANDIDATES),
                            total_jobs_selected |-> Len(selected_jobs),
                            total_offers_available |-> total_offers(selected_jobs),
                            total_candidates_allotted |->
                              Cardinality({i \in DOMAIN final_results_list :
                                             final_results_list[i].Status = "Allotted"})]]])
  /\ pc' = "idle"
  /\ UNCHANGED <<df_candidates, selected_jobs, all_scores_matrix, allotment_pools,
                 final_allotment_map, allocated_candidates_set, job_i,
                 remaining_matches_pool, match_i, final_results_list, DF_CANDIDATES,
                 upload_file, scoreVars, rankVars>>

\* [the record of compute_ranking's loop for each row of the table]
rank_rows(df, internship) == [i \in DOMAIN df |-> ranking_row(df[i], internship)]

\* {"ranking": ranked_list, "internship_details": job_dict}, the records in the
\* order p that sort_values left them in
rank_answer(internship, records, p) ==
  [request |-> "ranking", internship |-> internship, status_code |-> 200,
   body |-> [ranking |-> [i \in DOMAIN records |-> with_rank(records[p[i]], i)],
             internship_details |-> internship]]

\* rank_custom_internship: compute_ranking on DF_CANDIDATES for a custom position
RankRequest ==
  /\ pc = "idle"
  /\ requests_taken < MaxRequests
  /\ \E internship \in RankJobs :
       IF DF_CANDIDATES = <<>>
       THEN responses' =
              Append(responses,
                     [request |-> "ranking", internship |-> internship,
                      status_code |-> 400,
                      detail |-> [message |->
                                    "No candidate data loaded. Please upload a CSV first."]])
       ELSE \E p \in sort_values_orders(rank_rows(DF_CANDIDATES, internship)) :
              responses' =
                Append(responses,
                       rank_answer(internship, rank_rows(DF_CANDIDATES, internship), p))
  /\ UNCHANGED <<DF_CANDIDATES, upload_file, allocVars, scoreVars, rankVars>>

\* The steps of generate_smart_allotment run between AllotStart and AllotRespond.
\* Every preset has offers >= 2, so the offers == 0 branch of Pass 1 (Pass1Skip)
\* cannot be taken by a request and is left out.
NextServer ==
  \/ UploadStart
  \/ UploadFinish
  \/ RankRequest
  \/ AllotStart
  \/ BuildMatrix
  \/ BuildPools
  \/ Pass1Reserve
  \/ BuildRemaining
  \/ Pass2Match
  \/ FormatResults
  \/ AllotRespond

SpecServer == InitServer /\ [][NextServer]_vars

(***************************************************************************)
(* Properties of the server (SpecServer)                                   *)
(***************************************************************************)
\* generate_smart_allotment run alone on a table and a list of positions, each
\* step on values of its own
alone_matrix(df, jobs) ==
  [k \in 1..(Len(df) * Len(jobs)) |->
     matrix_entry(df[((k - 1) \div Len(jobs)) + 1], jobs[((k - 1) % Len(jobs)) + 1])]

alone_pass1_job(matrix, job, st) ==
  IF job.offers = 0 THEN st
  ELSE [map |-> [st.map EXCEPT ![job.key] =
                   pass1_reserve(pool_of(matrix, job.key), st.map[job.key], st.set).allotted],
        set |-> pass1_reserve(pool_of(matrix, job.key), st.map[job.key], st.set).allocated]

alone_pass1(matrix, jobs) ==
  LET F[i \in 0..Len(jobs)] ==
        IF i = 0
        THEN [map |-> [k \in {jobs[j].key : j \in DOMAIN jobs} |-> <<>>], set |-> {}]
        ELSE alone_pass1_job(matrix, jobs[i], F[i - 1])
  IN F[Len(jobs)]

alone_limit(jobs, key) ==
  jobs[CHOOSE i \in DOMAIN jobs :
         jobs[i].key = key /\ \A j \in DOMAIN jobs : jobs[j].key = key => j <= i].offers

alone_pass2_match(match, st, limit) ==
  IF match.candidate_name \notin st.set /\ Len(st.map[match.job_key]) < limit
  THEN [map |-> [st.map EXCEPT ![match.job_key] = Append(@, match)],
        set |-> st.set \cup {match.candidate_name}]
  ELSE st

alone_pass2(pool, jobs, after_pass1) ==
  LET G[i \in 0..Len(pool)] ==
        IF i = 0 THEN after_pass1
        ELSE alone_pass2_match(pool[i], G[i - 1], alone_limit(jobs, pool[i].job_key))
  IN G[Len(pool)]

alone_map(matrix, jobs, after_pass1) ==
  alone_pass2(remaining_pool(matrix, after_pass1.set), jobs, after_pass1).map

\* name -> the entry allotted under it (a name is in one list at most once)
alone_lookup(map) ==
  [name \in UNION {{map[k][i].candidate_name : i \in DOMAIN map[k]} : k \in DOMAIN map} |->
     CHOOSE m \in UNION {Range(map[k]) : k \in DOMAIN map} : m.candidate_name = name]

alone_records(df, lookup) ==
  sort_results([i \in DOMAIN df |-> result_record(df[i], lookup)])

alone_result(df, jobs) ==
  alone_records(df, alone_lookup(alone_map(alone_matrix(df, jobs), jobs,
                                           alone_pass1(alone_matrix(df, jobs), jobs))))

\* The answers to allotment requests that ran the engine
allotments_sent ==
  {i \in DOMAIN responses :
     responses[i].request = "allotment" /\ responses[i].status_code = 200}

\* C15: whatever requests came before or are waiting, the list a run of
\* generate_smart_allotment ends with is the list of a run alone on the table
\* and positions it was given, and the summary sent with it counts that table.
C15_RunsShareNothing ==
  /\ pc = "done" => final_results_list = alone_result(df_candidates, selected_jobs)
  /\ \A i \in allotments_sent :
       responses[i].body.summary.total_candidates
         = Len(responses[i].body.allotment_list)

\* A second run is over; the first ran while an upload was being read, the
\* upload then replaced the table, and the second run allots candidates of the
\* new table although the first run's reservations were made
C15_Witness ==
  /\ pc = "done"
  /\ Len(responses) = 2
  /\ responses[1].request = "allotment" /\ responses[1].status_code = 200
  /\ responses[2].request = "upload" /\ responses[2].status_code = 200
  /\ Len(responses[1].body.allotment_list) = Len(sample_data)
  /\ df_candidates = DF_CANDIDATES
  /\ df_candidates # sample_data
  /\ \E i \in DOMAIN final_results_list : final_results_list[i].Status = "Allotted"

\* The required columns an uploaded file lacks, however its header is written
file_missing_columns(file) == required_cols \ Range(normalized_columns(file.header))

\* C16: the answer to an upload of a CSV file that lacks required columns has
\* status 400 and a detail that names the missing columns.
C16_MissingColumnsRejected400 ==
  \A i \in DOMAIN responses :
    (/\ responses[i].request = "upload"
     /\ endswith(responses[i].file.filename, ".csv")
     /\ file_missing_columns(responses[i].file) # {})
      => /\ responses[i].status_code = 400
         /\ responses[i].detail.missing = file_missing_columns(responses[i].file)

(***************************************************************************)
(* Properties of the two passes (Spec)                                     *)
(***************************************************************************)
\* The indices of the matrix entries for a position key whose candidate has the
\* flag and a name outside the given set
quota_candidates(key, flag, taken) ==
  {k \in DOMAIN all_scores_matrix :
     /\ all_scores_matrix[k].job_key = key
     /\ all_scores_matrix[k][flag]
     /\ all_scores_matrix[k].candidate_name \notin taken}

\* Of a set of matrix indices, the one with the highest total score, the
\* earliest in the matrix (candidate-major input order) among equals
best_of(indices) ==
  CHOOSE k \in indices :
    \A l \in indices :
      \/ RLt(all_scores_matrix[l].total_score, all_scores_matrix[k].total_score)
      \/ all_scores_matrix[l].total_score = all_scores_matrix[k].total_score /\ k <= l

\* What Pass 1 is to append for a position key, given the names reserved so far
quota_female(key, taken) ==
  IF quota_candidates(key, "is_female", taken) = {} THEN <<>>
  ELSE <<all_scores_matrix[best_of(quota_candidates(key, "is_female", taken))]>>

quota_diversity(key, taken) ==
  IF quota_candidates(key, "is_diversity", taken) = {} THEN <<>>
  ELSE <<all_scores_matrix[best_of(quota_candidates(key, "is_diversity", taken))]>>

names_of(entries) == {entries[i].candidate_name : i \in DOMAIN entries}

quota_picks(key, taken) ==
  quota_female(key, taken)
    \o quota_diversity(key, taken \cup names_of(quota_female(key, taken)))

\* C17: a step of Pass 1 on a position with offers >= 1 appends to its list the
\* unreserved female with the highest score for it (earliest in input among
\* equals), then the unreserved diversity candidate with the highest score,
\* whose name differs from hers, and nothing else; it reserves exactly their
\* names; the lists of the other positions stay as they are, and a position with
\* no offers gets nothing.
C17_PassOneQuota ==
  [][(pc = "pass1" /\ job_i <= Len(selected_jobs)) =>
       LET key == selected_jobs[job_i].key
           picks == IF selected_jobs[job_i].offers >= 1
                    THEN quota_picks(key, allocated_candidates_set)
                    ELSE <<>>
       IN /\ final_allotment_map'[key] = final_allotment_map[key] \o picks
          /\ allocated_candidates_set' = allocated_candidates_set \cup names_of(picks)
          /\ Len(picks) = 2 => picks[1].candidate_name # picks[2].candidate_name
          /\ \A k \in job_keys \ {key} : final_allotment_map'[k] = final_allotment_map[k]]_vars

\* Pass 1 served the first position with a female who is not the first row of
\* the table and with a diversity candidate who is no female
C17_Witness ==
  /\ pc = "pass1"
  /\ job_i = 2
  /\ Len(df_candidates) = 3
  /\ Len(final_allotment_map[selected_jobs[1].key]) = 2
  /\ final_allotment_map[selected_jobs[1].key][1].is_female
  /\ final_allotment_map[selected_jobs[1].key][1].candidate_name # df_candidates[1].name
  /\ final_allotment_map[selected_jobs[1].key][2].is_diversity
  /\ ~final_allotment_map[selected_jobs[1].key][2].is_female

\* The names in the allotment lists of a map
names_in(map) == UNION {names_of(map[k]) : k \in DOMAIN map}

\* C18: Pass 1 reserves no name that is in a list already; the pool Pass 2 walks
\* holds no pair of a reserved name; the entries reserved stay where they are
\* while Pass 2 runs; and the output reports each name of a list Allotted to the
\* post of the entry that list holds for it.
C18_ReservationIsGlobal ==
  [][/\ pc = "pass1" =>
          \A k \in DOMAIN final_allotment_map :
            /\ SubSeq(final_allotment_map'[k], 1, Len(final_allotment_map[k]))
                 = final_allotment_map[k]
            /\ \A i \in (Len(final_allotment_map[k]) + 1)..Len(final_allotment_map'[k]) :
                 final_allotment_map'[k][i].candidate_name \notin names_in(final_allotment_map)
     /\ (pc = "pass1" /\ pc' = "pass2") =>
          \A i \in DOMAIN remaining_matches_pool' :
            remaining_matches_pool'[i].candidate_name \notin names_in(final_allotment_map)
     /\ pc = "pass2" =>
          \A k \in DOMAIN final_allotment_map :
            /\ SubSeq(final_allotment_map'[k], 1, Len(final_allotment_map[k]))
                 = final_allotment_map[k]
            /\ \A i \in (Len(final_allotment_map[k]) + 1)..Len(final_allotment_map'[k]) :
                 final_allotment_map'[k][i] \in Range(remaining_matches_pool)
     /\ pc' = "done" =>
          \A k \in DOMAIN final_allotment_map' :
            \A i \in DOMAIN final_allotment_map'[k] :
              \A j \in DOMAIN final_results_list' :
                final_results_list'[j].Name = final_allotment_map'[k][i].candidate_name
                  => /\ final_results_list'[j].Status = "Allotted"
                     /\ final_results_list'[j].Allotted_Job = final_allotment_map'[k][i].post
    ]_vars

\* Two positions each reserved somebody in Pass 1, Pass 2 had pairs to walk, and
\* the first position's reserved candidate is reported Allotted to it
C18_Witness ==
  /\ pc = "done"
  /\ Len(selected_jobs) = 2
  /\ selected_jobs[1].key # selected_jobs[2].key
  /\ remaining_matches_pool # <<>>
  /\ \A k \in job_keys :
       /\ final_allotment_map[k] # <<>>
       /\ final_allotment_map[k][1].candidate_name \notin names_of(remaining_matches_pool)
  /\ \E j \in DOMAIN final_results_list :
       /\ final_results_list[j].Name
            = final_allotment_map[selected_jobs[1].key][1].candidate_name
       /\ final_results_list[j].Allotted_Job = selected_jobs[1].post

\* The matrix indices of the pairs of names outside the given set
free_pairs(taken) ==
  {k \in DOMAIN all_scores_matrix : all_scores_matrix[k].candidate_name \notin taken}

\* The place of pair k among the given pairs, by non-increasing total score and,
\* among equals, by place in the matrix (candidate-major, then position order)
place_of(k, pairs) ==
  1 + Cardinality({l \in pairs :
                     \/ RLt(all_scores_matrix[k].total_score, all_scores_matrix[l].total_score)
                     \/ /\ all_scores_matrix[l].total_score = all_scores_matrix[k].total_score
                        /\ l < k})

walk_order(pairs) ==
  [i \in 1..Cardinality(pairs) |->
     all_scores_matrix[CHOOSE k \in pairs : place_of(k, pairs) = i]]

\* The offers of the position(s) selected under a key
offers_of(key) ==
  selected_jobs[CHOOSE j \in DOMAIN selected_jobs : selected_jobs[j].key = key].offers

\* C19: the pool Pass 2 walks holds every pair of an unreserved name once, in
\* non-increasing score, equal scores in matrix order; each step looks at the
\* next pair and appends it to its position's list exactly when its name is in
\* no list and that list, reservations included, is shorter than the offers.
C19_PassTwoWalk ==
  [][/\ (pc = "pass1" /\ pc' = "pass2") =>
          /\ remaining_matches_pool' = walk_order(free_pairs(names_in(final_allotment_map)))
          /\ match_i' = 1
     /\ (pc = "pass2" /\ pc' = "pass2") =>
          LET match == remaining_matches_pool[match_i]
              key == match.job_key
              taken == /\ match.candidate_name \notin names_in(final_allotment_map)
                       /\ Len(final_allotment_map[key]) < offers_of(key)
          IN /\ match_i' = match_i + 1
             /\ remaining_matches_pool' = remaining_matches_pool
             /\ final_allotment_map'[key] =
                  IF taken THEN Append(final_allotment_map[key], match)
                  ELSE final_allotment_map[key]
             /\ \A k \in job_keys \ {key} : final_allotment_map'[k] = final_allotment_map[k]
     /\ (pc = "pass2" /\ pc' = "done") => match_i = Len(remaining_matches_pool) + 1
    ]_vars

\* The walk is over: a position holds a Pass 1 reservation and a pair taken in
\* Pass 2, and a pair was passed over because its position was full
C19_Witness ==
  /\ pc = "pass2"
  /\ match_i = Len(remaining_matches_pool) + 1
  /\ \E k \in job_keys :
       /\ Len(final_allotment_map[k]) >= 2
       /\ final_allotment_map[k][1] \notin Range(remaining_matches_pool)
       /\ final_allotment_map[k][Len(final_allotment_map[k])] \in Range(remaining_matches_pool)
  /\ \E i \in DOMAIN remaining_matches_pool :
       remaining_matches_pool[i].candidate_name \notin names_in(final_allotment_map)

\* C20: no step of the run removes an entry from an allotment list or moves it:
\* every list keeps its entries, in place, in the next state; and a name the
\* output reports Waitlisted is in no list (so it never was in one).
C20_StatusOnlyMovesForward ==
  [][/\ \A k \in DOMAIN final_allotment_map :
          /\ k \in DOMAIN final_allotment_map'
          /\ Len(final_allotment_map'[k]) >= Len(final_allotment_map[k])
          /\ \A i \in DOMAIN final_allotment_map[k] :
               final_allotment_map'[k][i] = final_allotment_map[k][i]
     /\ pc' = "done" =>
          \A j \in DOMAIN final_results_list' :
            final_results_list'[j].Status = "Waitlisted"
              => final_results_list'[j].Name \notin names_in(final_allotment_map')
    ]_vars

\* Of three candidates one was taken in Pass 2 and two end Waitlisted, both
\* having had pairs in the walk
C20_Witness ==
  /\ pc = "done"
  /\ Len(df_candidates) = 3
  /\ Cardinality(results_with_status("Waitlisted")) = 2
  /\ \A j \in results_with_status("Waitlisted") :
       final_results_list[j].Name \in names_of(remaining_matches_pool)
  /\ \E k \in job_keys :
       /\ final_allotment_map[k] # <<>>
       /\ final_allotment_map[k][1] \in Range(remaining_matches_pool)

(***************************************************************************)
(* Properties of the output records (Spec)                                 *)
(***************************************************************************)
\* The entry Pass 0 computed for row i and the position selected j-th
pair_entry(i, j) == all_scores_matrix[(i - 1) * Len(selected_jobs) + j]

\* The keys of the positions row i was assigned to: those whose list holds an
\* entry Pass 0 computed for that row
assigned_to(i) ==
  {selected_jobs[j].key : j \in
     {j \in DOMAIN selected_jobs :
        pair_entry(i, j) \in Range(final_allotment_map[selected_jobs[j].key])}}

\* The entry Pass 0 computed for row i and the position selected under a key
own_pair(i, key) ==
  pair_entry(i, CHOOSE j \in DOMAIN selected_jobs : selected_jobs[j].key = key)

\* The record the row is to get: its position and the scores of its own pair
\* when it was assigned, 'N/A' and zeros when it was not
record_of_own_pair(i) ==
  IF assigned_to(i) # {}
  THEN LET e == own_pair(i, CHOOSE k \in assigned_to(i) : TRUE)
       IN [Name |-> df_candidates[i].name,
           Diversity |-> get_diversity_marker(df_candidates[i]),
           Status |-> "Allotted", Allotted_Job |-> e.post, Match |-> e.total_score,
           Skills |-> e.all_scores.skills, Education |-> e.all_scores.education,
           Location |-> e.all_scores.location, Interest |-> e.all_scores.interest,
           Gender |-> upper(df_candidates[i].gender),
           Category |-> upper(df_candidates[i].category)]
  ELSE [Name |-> df_candidates[i].name,
        Diversity |-> get_diversity_marker(df_candidates[i]),
        Status |-> "Waitlisted", Allotted_Job |-> "N/A", Match |-> R(0),
        Skills |-> R(0), Education |-> R(0), Location |-> R(0), Interest |-> R(0),
        Gender |-> upper(df_candidates[i].gender),
        Category |-> upper(df_candidates[i].category)]

\* How many times a record occurs in a list
occurrences(r, list) == Cardinality({i \in DOMAIN list : list[i] = r})

\* C21: the output holds, for each row, one record: Allotted, with the post of
\* the position the row was assigned to and the overall and four criterion
\* scores Pass 0 computed for that row and that position, when the row was
\* assigned; Waitlisted, with 'N/A' and 0.0 five times, when it was not.
C21_RecordCarriesOwnPair ==
  pc = "done" =>
    LET stated == [i \in DOMAIN df_candidates |-> record_of_own_pair(i)]
    IN /\ \A i \in DOMAIN df_candidates : Cardinality(assigned_to(i)) <= 1
       /\ \A r \in Range(stated) \cup Range(final_results_list) :
            occurrences(r, final_results_list) = occurrences(r, stated)

(***************************************************************************)
(* Properties of the aggregation (SpecScore)                               *)
(***************************************************************************)
\* The past-participation flag of the row scored reads YES, whatever its case
\* and the blanks around it
flag_set == normalize_skill(sc_row.past_participation) = "YES"

\* The row scored with its flag cleared
unflagged_row == [sc_row EXCEPT !.past_participation = "NO"]

\* The aggregate of a score vector under the position's priority order: the
\* weighted sum, or the mean of the four when the ranking has no order
aggregate_of(s) ==
  IF sc_job.priority # <<>>
  THEN overall_score([skills |-> s.skills, education |-> s.education,
                      location |-> s.location, interest |-> s.interest],
                     sc_job.priority)
  ELSE mean(<<s.skills, s.education, s.location, s.interest>>)

four_scores(s) == <<s.skills, s.education, s.location, s.interest>>

\* C22: in both scoring paths the four criterion scores of a pair are those of
\* the row with its flag cleared; the overall score is the aggregate of those
\* four (rounded first in the allotment's path) times 0.80, once, rounded to two
\* places, when the flag reads YES in any case and with blanks around it, and
\* the aggregate itself, rounded, under any other flag value.
C22_PenaltyOnceAfterAggregation ==
  /\ job_scores # <<>> =>
       /\ four_scores(job_scores[1]) = four_scores(rounded_scores(unflagged_row, sc_job))
       /\ job_scores[1].total =
            IF flag_set
            THEN round2(RMul(Frac(8, 10),
                             round2(overall_score(job_scores[1], sc_job.priority))))
            ELSE round2(overall_score(job_scores[1], sc_job.priority))
  /\ ranking_out # <<>> =>
       /\ <<ranking_out[1].Skills, ranking_out[1].Education, ranking_out[1].Location,
            ranking_out[1].Interest>>
            = <<ranking_row(unflagged_row, sc_job).Skills,
                ranking_row(unflagged_row, sc_job).Education,
                ranking_row(unflagged_row, sc_job).Location,
                ranking_row(unflagged_row, sc_job).Interest>>
       /\ ranking_out[1].Overall_Match =
            IF flag_set
            THEN round2(RMul(Frac(8, 10), aggregate_of(ranking_scores(sc_row, sc_job))))
            ELSE round2(aggregate_of(ranking_scores(sc_row, sc_job)))
       /\ ranking_out[1].Past_Participant = IF flag_set THEN "Yes" ELSE "No"

\* A row whose flag is written "yes " was scored under a full priority order in
\* both paths: its overall score is below the aggregate of its criterion scores,
\* and above 0.64 times it
C22_Witness ==
  /\ sc_pc = "done"
  /\ sc_row.past_participation = "yes "
  /\ Len(sc_job.priority) = 4
  /\ job_scores[1].total
       = round2(RMul(Frac(8, 10), round2(overall_score(job_scores[1], sc_job.priority))))
  /\ RLt(job_scores[1].total, round2(overall_score(job_scores[1], sc_job.priority)))
  /\ RLt(RMul(Frac(64, 100), overall_score(job_scores[1], sc_job.priority)),
         job_scores[1].total)
  /\ RLt(ranking_out[1].Overall_Match, aggregate_of(ranking_scores(sc_row, sc_job)))

\* The weight of the i-th place of a priority order
weight_of_place(i) ==
  CASE i = 1 -> Frac(4, 10) [] i = 2 -> Frac(3, 10) [] i = 3 -> Frac(2, 10)
    [] i = 4 -> Frac(1, 10)

\* The score a score vector holds for a criterion name, 0 for a name it lacks
score_of(s, criterion) ==
  CASE criterion = "skills" -> s.skills [] criterion = "education" -> s.education
    [] criterion = "location" -> s.location [] criterion = "interest" -> s.interest
    [] OTHER -> R(0)

\* weight[i] * score of the criterion at place i, 0 beyond the end of the order
term_of_place(s, order, i) ==
  IF i <= Len(order) THEN RMul(weight_of_place(i), score_of(s, order[i])) ELSE R(0)

sum_over_places(s, order) ==
  RAdd(RAdd(term_of_place(s, order, 1), term_of_place(s, order, 2)),
       RAdd(term_of_place(s, order, 3), term_of_place(s, order, 4)))

\* The weight a criterion has under an order that lists no name twice: that of
\* its place, 0 when the order does not list it
weight_of_criterion(order, criterion) ==
  IF \E i \in DOMAIN order : order[i] = criterion
  THEN weight_of_place(CHOOSE i \in DOMAIN order : order[i] = criterion)
  ELSE R(0)

sum_over_criteria(s, order) ==
  RAdd(RAdd(RMul(weight_of_criterion(order, "skills"), s.skills),
            RMul(weight_of_criterion(order, "education"), s.education)),
       RAdd(RMul(weight_of_criterion(order, "location"), s.location),
            RMul(weight_of_criterion(order, "interest"), s.interest)))

no_name_twice(order) == \A i, j \in DOMAIN order : i # j => order[i] # order[j]

\* C23: for a scored pair, overall_score on the four criterion scores and the
\* position's priority order, of any length up to four, is the sum over the
\* places i of the order of weight[i] times the score of the criterion at place
\* i, with weights 0.4, 0.3, 0.2, 0.1; under an order that lists no name twice
\* that is each criterion's score times the weight of its place, 0 for a
\* criterion the order leaves out; and the pair's total is that sum rounded
\* (times 0.80 and rounded again for a past participant).
C23_WeightedSumOverPlaces ==
  sc_pc \in {"ranking", "done"} =>
    /\ job_scores # <<>>
    /\ overall_score(job_scores[1], sc_job.priority)
         = sum_over_places(job_scores[1], sc_job.priority)
    /\ no_name_twice(sc_job.priority) =>
         overall_score(job_scores[1], sc_job.priority)
           = sum_over_criteria(job_scores[1], sc_job.priority)
    /\ job_scores[1].total =
         IF flag_set
         THEN round2(RMul(Frac(8, 10),
                          round2(sum_over_places(job_scores[1], sc_job.priority))))
         ELSE round2(sum_over_places(job_scores[1], sc_job.priority))

\* A pair was scored under the order (location, skills): its total is 0.4 times
\* the location score plus 0.3 times the skills score, although its education
\* score is not 0
C23_Witness ==
  /\ sc_pc = "done"
  /\ sc_job.priority = <<"location", "skills">>
  /\ ~flag_set
  /\ RLt(R(0), job_scores[1].education)
  /\ RLt(R(0), job_scores[1].skills)
  /\ job_scores[1].total
       = round2(RAdd(RMul(Frac(4, 10), job_scores[1].location),
                     RMul(Frac(3, 10), job_scores[1].skills)))

(***************************************************************************)
(* Properties of the skill matcher (SpecScore)                             *)
(***************************************************************************)
\* The highest tier that applies to a core required skill, given the skills held
highest_tier(req, held) ==
  IF \E cs \in Range(held) : cs = req THEN 100
  ELSE IF \E cs \in Range(held) : Contains(req, cs) \/ Contains(cs, req) THEN 80
  ELSE IF \E cs \in Range(held) :
            cs \in CoreSkills /\ subgroup_of(cs) = subgroup_of(req) THEN 50
  ELSE 0

reordered(held, p) == [k \in DOMAIN held |-> held[p[k]]]

\* C24: for every core required skill of the position the score the matcher
\* returned for the row's skills is 100 if one of them equals it, else 80 if one
\* is a substring of it or contains it, else 50 if one is a core skill of its
\* subgroup, and under 50 otherwise; the score of the first n skills never
\* exceeds that of the first n + 1; and the matcher returns the same score for
\* the skills in any other order.
C24_HighestTierWins ==
  skill_out # <<>> =>
    \A i \in DOMAIN sc_job.skills :
      normalize_skill(sc_job.skills[i]) \in CoreSkills =>
        LET req == normalize_skill(sc_job.skills[i])
            score == skill_out[1].matches[i][1]
        IN /\ highest_tier(req, row_skills) >= 50 => score = highest_tier(req, row_skills)
           /\ highest_tier(req, row_skills) < 50 => score < 50
           /\ \A n \in 0..Len(row_skills) :
                best_match_for_required_skill(sc_job.skills[i], SubSeq(row_skills, 1, n))[1]
                  <= score
           /\ \A p \in Permutations(DOMAIN row_skills) :
                best_match_for_required_skill(sc_job.skills[i], reordered(row_skills, p))[1]
                  = score

\* PYTHON is required of a row that holds PYTHON3 and then JAVASCRIPT: the 80 of
\* the first skill stands although the second is worth 50
C24_Witness ==
  /\ skill_out # <<>>
  /\ sc_job.skills = <<"PYTHON">>
  /\ row_skills = <<"PYTHON3", "JAVASCRIPT">>
  /\ best_match_for_required_skill("PYTHON", <<"JAVASCRIPT">>)[1] = 50
  /\ skill_out[1].matches[1] = <<80, "PYTHON3">>

(***************************************************************************)
(* Frame of the allocation run (Spec)                                      *)
(***************************************************************************)
\* C25: no step of generate_smart_allotment changes the candidate table or a
\* selected position, its offers included: both are, in every state of the run
\* and when it returns, what they were when it was called.  (The taxonomy tables
\* CORE_LOOKUP and NON_CORE_SET are assigned once when the module is loaded and
\* by no step of the run; they are constants here.)
C25_InputsUnmodified ==
  [][/\ df_candidates' = df_candidates
     /\ selected_jobs' = selected_jobs
     /\ \A j \in DOMAIN selected_jobs : selected_jobs'[j].offers = selected_jobs[j].offers
    ]_vars

\* The run returned after reserving in Pass 1 and allocating in Pass 2 for a
\* position whose offers are then all taken
C25_Witness ==
  /\ pc = "done"
  /\ Len(df_candidates) = 3
  /\ \E k \in job_keys :
       /\ Len(final_allotment_map[k]) = 2
       /\ job_offer_limits[k] = 2
       /\ final_allotment_map[k][1] \notin Range(remaining_matches_pool)
       /\ final_allotment_map[k][Len(final_allotment_map[k])] \in Range(remaining_matches_pool)
  /\ Len(final_results_list) = Len(df_candidates)

(***************************************************************************)
(* Rows that share a name (Spec)                                           *)
(***************************************************************************)
\* The seats filled: the entries in all allotment lists together
seats_filled ==
  LET order == key_order
      N[i \in 0..Len(order)] ==
        IF i = 0 THEN 0 ELSE N[i - 1] + Len(final_allotment_map[order[i]])
  IN N[Len(order)]

rows_named(name) == {i \in DOMAIN df_candidates : df_candidates[i].name = name}

\* What a record reports of the outcome: status, position and the five scores
outcome_of(r) ==
  <<r.Status, r.Allotted_Job, r.Match, r.Skills, r.Education, r.Location, r.Interest>>

\* C26: in every state of the run the allotment lists hold, all together, at most
\* one entry under a name, however many rows carry it; the records the output
\* holds under one name report the same status, position and scores, one record
\* per row of that name; so the Allotted records are never fewer than the seats
\* filled, and are more exactly when an allotted name is carried by several rows.
C26_SharedNameIsOneCandidate ==
  /\ \A i \in DOMAIN df_candidates : times_allotted(df_candidates[i].name) <= 1
  /\ pc = "done" =>
       /\ \A a, b \in DOMAIN final_results_list :
            final_results_list[a].Name = final_results_list[b].Name
              => outcome_of(final_results_list[a]) = outcome_of(final_results_list[b])
       /\ \A i \in DOMAIN df_candidates :
            Cardinality({j \in DOMAIN final_results_list :
                           final_results_list[j].Name = df_candidates[i].name})
              = Cardinality(rows_named(df_candidates[i].name))
       /\ Cardinality(results_with_status("Allotted")) >= seats_filled
       /\ Cardinality(results_with_status("Allotted")) > seats_filled
            <=> \E i \in DOMAIN df_candidates :
                  /\ Cardinality(rows_named(df_candidates[i].name)) > 1
                  /\ times_allotted(df_candidates[i].name) = 1

\* Two rows of different profiles share a name; one entry under it was placed,
\* both rows are reported Allotted with its scores, and the Allotted records
\* outnumber the seats filled
C26_Witness ==
  /\ pc = "done"
  /\ Len(df_candidates) = 2
  /\ df_candidates[1].name = df_candidates[2].name
  /\ all_scores_matrix[1].total_score # all_scores_matrix[Len(selected_jobs) + 1].total_score
  /\ seats_filled = 1
  /\ Cardinality(results_with_status("Allotted")) = 2
  /\ final_results_list[1].Match = final_results_list[2].Match

(***************************************************************************)
(* Properties of the final allotment (Spec)                                *)
(***************************************************************************)
distinct_names ==
  \A i, j \in DOMAIN df_candidates :
    i # j => df_candidates[i].name # df_candidates[j].name

\* C27: when a run on rows of distinct names ends with some candidate
\* Waitlisted, the allotment list of every selected position holds at least as
\* many entries as the position has offers.
C27_NoSeatWasted ==
  (pc = "done" /\ distinct_names /\ results_with_status("Waitlisted") # {}) =>
    \A j \in DOMAIN selected_jobs :
      Len(final_allotment_map[selected_jobs[j].key]) >= selected_jobs[j].offers

\* Two different positions with offers, three rows of distinct names: a
\* candidate passed over for a full position was taken by the other one, both
\* positions are full and one candidate is Waitlisted
C27_Witness ==
  /\ pc = "done"
  /\ distinct_names
  /\ Len(df_candidates) = 3
  /\ Len(selected_jobs) = 2
  /\ selected_jobs[1].key # selected_jobs[2].key
  /\ \A j \in DOMAIN selected_jobs :
       /\ selected_jobs[j].offers = 1
       /\ Len(final_allotment_map[selected_jobs[j].key]) = 1
  /\ Cardinality(results_with_status("Waitlisted")) = 1
  /\ \E k \in job_keys, i \in DOMAIN remaining_matches_pool :
       /\ final_allotment_map[k][1] \in Range(remaining_matches_pool)
       /\ remaining_matches_pool[i].candidate_name = final_allotment_map[k][1].candidate_name
       /\ remaining_matches_pool[i].job_key # k
       /\ RLt(final_allotment_map[k][1].total_score, remaining_matches_pool[i].total_score)

\* The entries a position's list got in Pass 2: those that were in the pool
taken_in_pass2(key) ==
  {e \in Range(final_allotment_map[key]) : e \in Range(remaining_matches_pool)}

\* The matrix indices of the pairs for a position key of names in no list
waitlisted_pairs(key) ==
  {l \in DOMAIN all_scores_matrix :
     /\ all_scores_matrix[l].job_key = key
     /\ all_scores_matrix[l].candidate_name \notin names_in(final_allotment_map)}

\* The place in the matrix of an entry (the first, should two rows be alike)
matrix_place(e) ==
  CHOOSE m \in DOMAIN all_scores_matrix :
    all_scores_matrix[m] = e /\ \A n \in 1..(m - 1) : all_scores_matrix[n] # e

\* C28: when the run is over, for every entry Pass 2 placed in a position's list
\* and every candidate reported Waitlisted, the Waitlisted candidate's overall
\* score for that position is not greater than the entry's, and when the two are
\* equal the entry's pair comes before the Waitlisted candidate's in the matrix.
C28_NoJustifiedEnvy ==
  pc = "done" =>
    \A k \in job_keys :
      \A e \in taken_in_pass2(k) :
        \A l \in waitlisted_pairs(k) :
          /\ \E j \in results_with_status("Waitlisted") :
               final_results_list[j].Name = all_scores_matrix[l].candidate_name
          /\ RLe(all_scores_matrix[l].total_score, e.total_score)
          /\ all_scores_matrix[l].total_score = e.total_score => matrix_place(e) < l

\* A position took a candidate in Pass 2 and is full; of the two Waitlisted, one
\* scores as high for it as the candidate taken and one scores lower
C28_Witness ==
  /\ pc = "done"
  /\ Len(df_candidates) = 3
  /\ Cardinality(results_with_status("Waitlisted")) = 2
  /\ \E k \in job_keys :
       \E e \in taken_in_pass2(k) :
         /\ \E l \in waitlisted_pairs(k) : all_scores_matrix[l].total_score = e.total_score
         /\ \E l \in waitlisted_pairs(k) : RLt(all_scores_matrix[l].total_score, e.total_score)

(***************************************************************************)
(* Bound on the lists of a run started by a request (SpecServer)           *)
(***************************************************************************)
max_of(a, b) == IF a >= b THEN a ELSE b

\* The entries of a position's list that Pass 1 put there: those not in the
\* pool of Pass 2
reserved_in_pass1(key) ==
  {i \in DOMAIN final_allotment_map[key] :
     final_allotment_map[key][i] \notin Range(remaining_matches_pool)}

\* C29: in every state of an allocation run the list of a position holds at most
\* max(offers, 2) entries; at most two of them were added by Pass 1; and where
\* Pass 2 added one, the list holds at most as many entries as the offers.
C29_QuotaOverflowBound ==
  /\ pc \in {"pass1", "pass2", "done"} =>
       \A k \in DOMAIN final_allotment_map :
         Len(final_allotment_map[k]) <= max_of(job_offer_limits[k], 2)
  /\ pc = "pass1" =>
       \A k \in DOMAIN final_allotment_map : Len(final_allotment_map[k]) <= 2
  /\ pc \in {"pass2", "done"} =>
       \A k \in DOMAIN final_allotment_map :
         /\ Cardinality(reserved_in_pass1(k)) <= 2
         /\ reserved_in_pass1(k) # DOMAIN final_allotment_map[k]
              => Len(final_allotment_map[k]) <= job_offer_limits[k]

(***************************************************************************)
(* The stored table across uploads (SpecServer)                            *)
(***************************************************************************)
\* The checks an upload has to pass: the file name, readable content, the
\* required columns
passes_every_check(file) ==
  /\ endswith(file.filename, ".csv")
  /\ file.header # <<>>
  /\ file_missing_columns(file) = {}

\* The rows of the file under its column names, lower-cased and stripped
rows_of_file(file) ==
  [r \in DOMAIN file.data |->
     [c \in {strip(lower(file.header[i])) : i \in DOMAIN file.header} |->
        file.data[r][CHOOSE i \in DOMAIN file.header : strip(lower(file.header[i])) = c]]]

\* C30: a step that answers an upload is a rejection (status other than 200)
\* exactly when the file fails a check, and then DF_CANDIDATES is after the step
\* what it was before; a step that changes DF_CANDIDATES answers, with status
\* 200, an upload whose file passes every check, and stores that file's rows;
\* an allotment request that runs the engine hands it the DF_CANDIDATES of that
\* moment, and a ranking request ranks the rows of the DF_CANDIDATES of that
\* moment.
C30_FailedUploadKeepsTable ==
  [][/\ (/\ Len(responses') = Len(responses) + 1
         /\ responses'[Len(responses')].request = "upload")
          => /\ responses'[Len(responses')].status_code # 200
                  <=> ~passes_every_check(responses'[Len(responses')].file)
             /\ responses'[Len(responses')].status_code # 200
                  => DF_CANDIDATES' = DF_CANDIDATES
     /\ DF_CANDIDATES' # DF_CANDIDATES
          => /\ Len(responses') = Len(responses) + 1
             /\ responses'[Len(responses')].request = "upload"
             /\ responses'[Len(responses')].status_code = 200
             /\ passes_every_check(responses'[Len(responses')].file)
             /\ DF_CANDIDATES' = rows_of_file(responses'[Len(responses')].file)
     /\ (pc = "idle" /\ pc' = "matrix") => df_candidates' = DF_CANDIDATES
     /\ (/\ Len(responses') = Len(responses) + 1
         /\ responses'[Len(responses')].request = "ranking"
         /\ responses'[Len(responses')].status_code = 200)
          => /\ Len(responses'[Len(responses')].body.ranking) = Len(DF_CANDIDATES)
             /\ \A i \in DOMAIN DF_CANDIDATES :
                  Cardinality({j \in DOMAIN responses'[Len(responses')].body.ranking :
                                 responses'[Len(responses')].body.ranking[j].Name
                                   = DF_CANDIDATES[i].name})
                    = Cardinality({j \in DOMAIN DF_CANDIDATES :
                                     DF_CANDIDATES[j].name = DF_CANDIDATES[i].name})
    ]_vars

\* An upload replaced the table, a second upload was rejected for its missing
\* columns, and the allotment request after it ran on the first upload's rows
C30_Witness ==
  /\ Len(responses) = 3
  /\ responses[1].request = "upload" /\ responses[1].status_code = 200
  /\ responses[2].request = "upload" /\ responses[2].status_code # 200
  /\ endswith(responses[2].file.filename, ".csv")
  /\ responses[2].file.data # <<>>
  /\ responses[3].request = "allotment" /\ responses[3].status_code = 200
  /\ DF_CANDIDATES = rows_of_file(responses[1].file)
  /\ DF_CANDIDATES # sample_data
  /\ df_candidates = DF_CANDIDATES
  /\ Len(responses[3].body.allotment_list) = Len(responses[1].file.data)

====
